---- MODULE Spec2Model ----
(***************************************************************************)
(* A model of the Candid language server's incremental semantic index:    *)
(* the document and analysis stores, the position-to-offset LRU cache,    *)
(* the per-document task generations, the request handlers as            *)
(* cooperative tasks that interleave at their await points, and the       *)
(* analysis pass over a parsed program.                                    *)
(*                                                                         *)
(* Handlers are futures polled by one server task: the code between two   *)
(* await points runs without interruption, and every await is a point     *)
(* where another handler may run.                                          *)
(***************************************************************************)
EXTENDS Integers, Sequences, FiniteSets, TLC

VARIABLES
    documents,            \* DashMap<String, DocumentSnapshot>
    analysis_map,         \* DashMap<String, AnalysisSnapshot>
    task_states,          \* DashMap<String, Arc<DocumentTaskState>>
    task_heap,            \* the DocumentTaskState objects the Arcs point to
    hover_offset_cache,   \* Mutex<HoverOffsetCache>: its entries, LRU first
    tasks,                \* the handler futures, in arrival order
    published,            \* the last publish_diagnostics per document
    blocked,              \* the server task is parked on a map shard lock
    text_epoch,           \* history: how often each document's text was stored
    origin,               \* history: the text_epoch each cache entry was computed in
    lru,                  \* driver of the offset-cache specification
    fresh,                \* driver of the is_fresh specification
    an,                   \* driver of the analysis-pass specification
    eval                  \* driver of the pure-function specifications

vars == <<documents, analysis_map, task_states, task_heap, hover_offset_cache,
          tasks, published, blocked, text_epoch, origin, lru, fresh, an, eval>>

serverVars == <<documents, analysis_map, task_states, task_heap, tasks,
                published, blocked, text_epoch, origin>>

(***************************************************************************)
(* Option<T>: None is the empty sequence, Some(x) the one-element one.     *)
(***************************************************************************)
None == <<>>
Some(x) == <<x>>
IsSome(o) == Len(o) = 1
IsNone(o) == Len(o) = 0
Unwrap(o) == o[1]

Min(a, b) == IF a <= b THEN a ELSE b
Max(a, b) == IF a >= b THEN a ELSE b

\* `then`, evaluated once `first` has its value: the statements of a loop
\* body run one after the other.
After(first, then) == IF first = first THEN then ELSE then

Span(s, e) == [start |-> s, end |-> e]
Position(l, c) == [line |-> l, character |-> c]

(***************************************************************************)
(* Ropes are sequences of characters; offsets are 0-based char indices.    *)
(***************************************************************************)
Newlines(rope) == {i \in 1..Len(rope) : rope[i] = "\n"}

len_chars(rope) == Len(rope)

len_lines(rope) == Cardinality(Newlines(rope)) + 1

\* Rope::try_line_to_char: the offset of the first char of line l; l may be
\* one past the last line, which gives the length of the text.
line_to_char(rope, l) ==
    IF l = 0 THEN 0
    ELSE IF l >= len_lines(rope) THEN Len(rope)
    ELSE CHOOSE i \in Newlines(rope) :
            Cardinality({j \in Newlines(rope) : j <= i}) = l

\* Rope::try_char_to_line: the line of the char at offset (offset <= len).
char_to_line(rope, offset) ==
    Cardinality({i \in Newlines(rope) : i <= offset})

\* rope.line(l).len_chars(): the line's length, its line break included.
line_len_chars(rope, l) == line_to_char(rope, l + 1) - line_to_char(rope, l)

\* offset_to_position with the operands of saturating_sub exchanged.
offset_to_position_reversed(offset, rope) ==
    IF offset > Len(rope) THEN None
    ELSE LET line == char_to_line(rope, offset)
             first_char_of_line == line_to_char(rope, line)
         IN Some(Position(line, Max(first_char_of_line - offset, 0)))

offset_to_position(offset, rope) ==
    IF offset > Len(rope) THEN None
    ELSE LET line == char_to_line(rope, offset)
             first_char_of_line == line_to_char(rope, line)
         IN Some(Position(line, offset - first_char_of_line))

\* position_to_offset refusing the column at the end of the line.
position_to_offset_short(position, rope) ==
    IF position.line >= len_lines(rope) THEN None
    ELSE IF position.character >= line_len_chars(rope, position.line) THEN None
    ELSE Some(line_to_char(rope, position.line) + position.character)

position_to_offset(position, rope) ==
    IF position.line >= len_lines(rope) THEN None
    ELSE IF position.character > line_len_chars(rope, position.line) THEN None
    ELSE Some(line_to_char(rope, position.line) + position.character)

span_to_range(span, rope) ==
    LET start == offset_to_position(span.start, rope)
        end == offset_to_position(span.end, rope)
    IN IF IsNone(start) \/ IsNone(end) THEN None
       ELSE Some([start |-> Unwrap(start), end |-> Unwrap(end)])

(***************************************************************************)
(* HoverOffsetCache: a Vec of entries, least recently used first.          *)
(***************************************************************************)
HoverCacheCapacity == 64

HoverCacheEntry(uri, version, position, offset) ==
    [uri |-> uri, version |-> version, line |-> position.line,
     column |-> position.character, offset |-> offset]

matches(entry, uri, version, position) ==
    /\ entry.uri = uri
    /\ entry.version = version
    /\ entry.line = position.line
    /\ entry.column = position.character

RemoveAt(seq, idx) ==
    [i \in 1..(Len(seq) - 1) |-> IF i < idx THEN seq[i] ELSE seq[i + 1]]

\* HoverOffsetCache::lookup: [cache, result]; a hit moves the first matching
\* entry to the back of the Vec.
cache_lookup(entries, uri, version, position) ==
    LET hits == {i \in 1..Len(entries) : matches(entries[i], uri, version, position)}
    IN IF hits = {} THEN [cache |-> entries, result |-> None]
       ELSE LET idx == CHOOSE i \in hits : \A j \in hits : i <= j
            IN [cache |-> Append(RemoveAt(entries, idx), entries[idx]),
                result |-> Some(entries[idx].offset)]

\* An insert that removes the newest entry at capacity.
cache_insert_drop_newest(entries, uri, version, position, offset) ==
    LET kept == IF Len(entries) >= HoverCacheCapacity
                THEN SubSeq(entries, 1, Len(entries) - 1) ELSE entries
    IN Append(kept, HoverCacheEntry(uri, version, position, offset))

\* HoverOffsetCache::insert: at capacity the front entry is removed first.
cache_insert(entries, uri, version, position, offset) ==
    LET kept == IF Len(entries) >= HoverCacheCapacity THEN Tail(entries) ELSE entries
    IN Append(kept, HoverCacheEntry(uri, version, position, offset))

\* An invalidation that retains every entry.
invalidate_uri_nothing(entries, uri) == entries

\* An invalidation that clears the whole cache.
invalidate_uri_everything(entries, uri) == <<>>

\* HoverOffsetCache::invalidate_uri: Vec::retain.
invalidate_uri(entries, uri) == SelectSeq(entries, LAMBDA e : e.uri # uri)

\* CandidLanguageServer::cached_position_to_offset: [cache, result].
cached_position_to_offset(entries, uri, position, rope, version) ==
    LET hit == cache_lookup(entries, uri, version, position)
    IN IF IsSome(hit.result) THEN hit
       ELSE LET offset == position_to_offset(position, rope)
            IN IF IsNone(offset) THEN [cache |-> entries, result |-> None]
               ELSE [cache |-> cache_insert(entries, uri, version, position, Unwrap(offset)),
                     result |-> offset]

(***************************************************************************)
(* Text helpers (str::trim_end, rfind, starts_with, ...) on sequences of   *)
(* characters; rfind answers a 1-based index, 0 for None.                  *)
(***************************************************************************)
IsWhitespace(ch) == ch \in {" ", "\n", "\t", "\r"}

AsciiAlphanumeric ==
    {"a", "b", "c", "d", "e", "f", "g", "h", "i", "j", "k", "l", "m", "n", "o", "p",
     "q", "r", "s", "t", "u", "v", "w", "x", "y", "z",
     "A", "B", "C", "D", "E", "F", "G", "H", "I", "J", "K", "L", "M", "N", "O", "P",
     "Q", "R", "S", "T", "U", "V", "W", "X", "Y", "Z",
     "0", "1", "2", "3", "4", "5", "6", "7", "8", "9"}

trim_end(text) ==
    LET kept == {i \in 1..Len(text) : ~IsWhitespace(text[i])}
    IN IF kept = {} THEN <<>>
       ELSE SubSeq(text, 1, CHOOSE i \in kept : \A j \in kept : j <= i)

trim_start(text) ==
    LET kept == {i \in 1..Len(text) : ~IsWhitespace(text[i])}
    IN IF kept = {} THEN <<>>
       ELSE SubSeq(text, CHOOSE i \in kept : \A j \in kept : i <= j, Len(text))

rfind(text, ch) ==
    LET hits == {i \in 1..Len(text) : text[i] = ch}
    IN IF hits = {} THEN 0 ELSE CHOOSE i \in hits : \A j \in hits : j <= i

contains(text, ch) == \E i \in 1..Len(text) : text[i] = ch

starts_with(text, prefix) ==
    Len(text) >= Len(prefix) /\ SubSeq(text, 1, Len(prefix)) = prefix

ends_with(text, suffix) ==
    Len(text) >= Len(suffix)
    /\ SubSeq(text, Len(text) - Len(suffix) + 1, Len(text)) = suffix

(***************************************************************************)
(* The identifier index (Semantic.ident_range, a Lapper of intervals       *)
(* start..stop tagged with an IdentType) and lookup_identifier.            *)
(***************************************************************************)
IdentBinding(symbol_id) == [tag |-> "Binding", id |-> symbol_id]
IdentReference(reference_id) == [tag |-> "Reference", id |-> reference_id]
IdentField(field_id, part) == [tag |-> "Field", id |-> field_id, part |-> part]
IdentServiceMethod(method_id) == [tag |-> "ServiceMethod", id |-> method_id]
IdentFuncParam(param_id) == [tag |-> "FuncParam", id |-> param_id]
IdentPrimitive(kind) == [tag |-> "Primitive", prim |-> kind]
IdentKeyword(keyword) == [tag |-> "Keyword", keyword |-> keyword]
IdentActor == [tag |-> "Actor"]

Interval(start, stop, val) == [start |-> start, stop |-> stop, val |-> val]

\* Every kind ranks the same.
ident_priority_flat(ident) == 1

ident_priority(ident) ==
    CASE ident.tag = "Reference" -> 5
      [] ident.tag = "Primitive" -> 4
      [] ident.tag = "Keyword" -> 4
      [] ident.tag = "Actor" -> 3
      [] ident.tag = "Field" /\ ident.part = "Label" -> 3
      [] ident.tag = "ServiceMethod" -> 3
      [] ident.tag = "FuncParam" -> 3
      [] ident.tag = "Field" /\ ident.part = "Type" -> 2
      [] OTHER -> 1

\* Lapper keeps its intervals ordered by (start, stop).
IntervalLeq(a, b) == a.start < b.start \/ (a.start = b.start /\ a.stop <= b.stop)

\* Lapper::insert puts the interval at the index its binary search
\* answers: any index that keeps the order.
lapper_insert_points(intervals, elem) ==
    {i \in 1..(Len(intervals) + 1) :
        /\ \A j \in 1..(i - 1) : IntervalLeq(intervals[j], elem)
        /\ \A j \in i..Len(intervals) : IntervalLeq(elem, intervals[j])}

lapper_insert_at(intervals, elem, i) ==
    SubSeq(intervals, 1, i - 1) \o <<elem>> \o SubSeq(intervals, i, Len(intervals))

\* Lapper::find(start, stop): the intervals that overlap start..stop, in order.
lapper_find(intervals, start, stop) ==
    SelectSeq(intervals, LAMBDA iv : iv.start < stop /\ iv.stop > start)

\* lookup_identifier, the selection loop: best is None or
\* Some([priority, span_len, val, span]).
RECURSIVE select_best(_, _)
select_best(found, best) ==
    IF found = <<>> THEN best
    ELSE LET interval == Head(found)
             priority == ident_priority(interval.val)
             span_len == Max(interval.stop - interval.start, 0)
             replace == IF IsSome(best)
                        THEN \/ priority > Unwrap(best).priority
                             \/ /\ priority = Unwrap(best).priority
                                /\ span_len < Unwrap(best).span_len
                        ELSE TRUE
         IN select_best(Tail(found),
                IF replace
                THEN Some([priority |-> priority, span_len |-> span_len,
                           val |-> interval.val,
                           span |-> Span(interval.start, interval.stop)])
                ELSE best)

\* A search that reaches two characters past the offset.
best_interval_reaching(ident_range, offset) ==
    select_best(lapper_find(ident_range, offset, offset + 3), None)

best_interval(ident_range, offset) ==
    select_best(lapper_find(ident_range, offset, offset + 1), None)

(***************************************************************************)
(* The parsed program (candid_parser's spanned syntax tree).               *)
(***************************************************************************)
PrimT(prim, span) == [kind |-> "PrimT", span |-> span, prim |-> prim]
VarT(name, span) == [kind |-> "VarT", span |-> span, name |-> name]
OptT(inner, span) == [kind |-> "OptT", span |-> span, inner |-> inner]
VecT(inner, span) == [kind |-> "VecT", span |-> span, inner |-> inner]
RecordT(fields, span) == [kind |-> "RecordT", span |-> span, fields |-> fields]
VariantT(fields, span) == [kind |-> "VariantT", span |-> span, fields |-> fields]
FuncT(args, rets, modes, span) ==
    [kind |-> "FuncT", span |-> span, args |-> args, rets |-> rets, modes |-> modes]
ServT(bindings, span) == [kind |-> "ServT", span |-> span, bindings |-> bindings]
TypeField(label, typ, span) == [label |-> label, typ |-> typ, span |-> span]
Binding(id, typ, span) == [id |-> id, typ |-> typ, span |-> span]
TypD(binding) == [dec |-> "TypD", binding |-> binding]
ImportType(path, span) == [dec |-> "ImportType", path |-> path, span |-> span]
ImportServ(path, span) == [dec |-> "ImportServ", path |-> path, span |-> span]
IDLActorType(typ, span) == [typ |-> typ, span |-> span]
IDLProg(decs, actor) == [decs |-> decs, actor |-> actor]

EmptyMap == [k \in {} |-> k]
MapInsert(map, k, v) == (k :> v) @@ map

(***************************************************************************)
(* SymbolTable.  SymbolId and ReferenceId are 0-based indices into the     *)
(* arenas symbol_id_to_span and reference_id_to_reference.                 *)
(***************************************************************************)
SymbolTableDefault ==
    [span_to_symbol_id |-> EmptyMap,
     symbol_id_to_span |-> <<>>,
     reference_id_to_reference |-> <<>>,
     span_to_reference_id |-> EmptyMap,
     symbol_id_to_references |-> EmptyMap,
     imports |-> <<>>]

\* add_symbol returning an id one past the slot it pushed.
add_symbol_past(table, span) ==
    LET symbol_id == Len(table.symbol_id_to_span) + 1
    IN [table EXCEPT !.symbol_id_to_span = Append(@, span),
                     !.span_to_symbol_id = MapInsert(@, span, symbol_id)]

\* add_symbol that leaves the entry of an already used span alone.
add_symbol_keeps_first(table, span) ==
    LET symbol_id == Len(table.symbol_id_to_span)
    IN [table EXCEPT !.symbol_id_to_span = Append(@, span),
                     !.span_to_symbol_id =
                         IF span \in DOMAIN @ THEN @ ELSE MapInsert(@, span, symbol_id)]

add_symbol(table, span) ==
    LET symbol_id == Len(table.symbol_id_to_span)
    IN [table EXCEPT !.symbol_id_to_span = Append(@, span),
                     !.span_to_symbol_id = MapInsert(@, span, symbol_id)]

add_reference(table, span, symbol_id) ==
    LET reference_id == Len(table.reference_id_to_reference)
        pushed == [table EXCEPT
                     !.reference_id_to_reference =
                         Append(@, [span |-> span, symbol_id |-> symbol_id]),
                     !.span_to_reference_id = MapInsert(@, span, reference_id)]
    IN IF IsNone(symbol_id) THEN pushed
       ELSE LET sid == Unwrap(symbol_id)
                old == IF sid \in DOMAIN table.symbol_id_to_references
                       THEN table.symbol_id_to_references[sid] ELSE <<>>
            IN [pushed EXCEPT !.symbol_id_to_references =
                                  MapInsert(@, sid, Append(old, reference_id))]

add_import(table, span, path, kind) ==
    LET symbol_id == Len(table.symbol_id_to_span)
        added == add_symbol(table, span)
    IN [added EXCEPT !.imports =
            Append(@, [kind |-> kind, path |-> path, span |-> span,
                       symbol_id |-> symbol_id])]

(***************************************************************************)
(* Identifier spans are found by searching the document's text.  The       *)
(* identifiers of the sample programs are one character long.              *)
(***************************************************************************)
NameChars(name) == IF name = "" THEN <<>> ELSE <<name>>

\* KeywordDoc::keyword
keyword_text(keyword) ==
    CASE keyword = "Func" -> <<"f", "u", "n", "c">>
      [] keyword = "Opt" -> <<"o", "p", "t">>
      [] keyword = "Record" -> <<"r", "e", "c", "o", "r", "d">>
      [] keyword = "Service" -> <<"s", "e", "r", "v", "i", "c", "e">>
      [] keyword = "Type" -> <<"t", "y", "p", "e">>
      [] keyword = "Variant" -> <<"v", "a", "r", "i", "a", "n", "t">>
      [] keyword = "Vec" -> <<"v", "e", "c">>
      [] keyword = "Query" -> <<"q", "u", "e", "r", "y">>
      [] keyword = "Oneway" -> <<"o", "n", "e", "w", "a", "y">>
      [] keyword = "Import" -> <<"i", "m", "p", "o", "r", "t">>
      [] OTHER -> <<"p", "r", "i", "n", "c", "i", "p", "a", "l">>

primitive_keyword(kind) ==
    CASE kind = "nat" -> <<"n", "a", "t">>
      [] kind = "int" -> <<"i", "n", "t">>
      [] OTHER -> <<"t", "e", "x", "t">>

Chars_blob == <<"b", "l", "o", "b">>

\* The 1-based indices at which needle occurs in text.
match_indices(text, needle) ==
    {i \in 1..(Len(text) - Len(needle) + 1) :
        SubSeq(text, i, i + Len(needle) - 1) = needle}

\* rope.slice(span.start..span.end)
slice(rope, span) == SubSeq(rope, span.start + 1, span.end)

find_identifier_span(rope, span, needle, from_end) ==
    IF needle = <<>> \/ span.start >= span.end THEN None
    ELSE LET hits == match_indices(slice(rope, span), needle)
         IN IF hits = {} THEN None
            ELSE LET idx == IF from_end
                            THEN CHOOSE i \in hits : \A j \in hits : j <= i
                            ELSE CHOOSE i \in hits : \A j \in hits : i <= j
                     start == span.start + idx - 1
                 IN Some(Span(start, start + Len(needle)))

find_char_in_span(rope, span, ch) ==
    IF span.start >= span.end THEN None
    ELSE LET hits == match_indices(slice(rope, span), <<ch>>)
         IN IF hits = {} THEN None
            ELSE Some(span.start + (CHOOSE i \in hits : \A j \in hits : i <= j) - 1)

args_region_start(rope, span) ==
    LET pos == find_char_in_span(rope, span, "(")
    IN IF IsSome(pos) THEN Unwrap(pos) + 1 ELSE span.start

compute_binding_ident_span(binding, rope) ==
    IF binding.id = "" THEN None
    ELSE LET start == binding.span.start
             end == IF binding.typ.span.start <= start
                    THEN binding.span.end ELSE binding.typ.span.start
         IN IF end <= start THEN None
            ELSE find_identifier_span(rope, Span(start, end), NameChars(binding.id), TRUE)

compute_field_label_span(field, rope) ==
    IF field.label = "" THEN None
    ELSE LET start == field.span.start
             end == IF field.typ.span.start <= start
                    THEN field.span.end ELSE field.typ.span.start
         IN IF end <= start THEN None
            ELSE find_identifier_span(rope, Span(start, end), NameChars(field.label), TRUE)

\* The text behind the last "(" or "," of before (all of it without one).
last_segment(before) ==
    LET cuts == {i \in 1..Len(before) : before[i] \in {"(", ","}}
    IN IF cuts = {} THEN before
       ELSE SubSeq(before, (CHOOSE i \in cuts : \A j \in cuts : j <= i) + 1, Len(before))

compute_param_name_span(rope, search_span) ==
    IF search_span.start >= search_span.end THEN None
    ELSE LET text == slice(rope, search_span)
             colon_idx == rfind(text, ":")
         IN IF colon_idx = 0 THEN None
            ELSE LET name == trim_end(trim_start(
                                last_segment(SubSeq(text, 1, colon_idx - 1))))
                 IN IF name = <<>> THEN None
                    ELSE find_identifier_span(rope, search_span, name, TRUE)

\* The first whitespace-delimited word of text (text does not start with
\* whitespace).
first_word(text) ==
    LET gaps == {i \in 1..Len(text) : IsWhitespace(text[i])}
    IN IF gaps = {} THEN text
       ELSE SubSeq(text, 1, (CHOOSE i \in gaps : \A j \in gaps : i <= j) - 1)

compute_actor_name_span(actor, rope) ==
    LET colon_pos == find_char_in_span(rope, actor.span, ":")
    IN IF IsNone(colon_pos) THEN None
       ELSE LET search_span == Span(actor.span.start, Unwrap(colon_pos))
                trimmed == trim_start(slice(rope, search_span))
            IN IF ~starts_with(trimmed, keyword_text("Service")) THEN None
               ELSE LET without_keyword ==
                            trim_start(SubSeq(trimmed, 8, Len(trimmed)))
                    IN IF without_keyword = <<>> THEN None
                       ELSE find_identifier_span(rope, search_span,
                                                 first_word(without_keyword), FALSE)

\* span_text_eq(rope, span, "blob")
is_blob(span, rope) ==
    span.start < span.end /\ trim_end(trim_start(slice(rope, span))) = Chars_blob

(***************************************************************************)
(* Ctx: the state of one analysis pass.  err is the SemanticError that     *)
(* the ? operator propagates; once set, the rest of the pass is skipped.   *)
(***************************************************************************)
CtxNew(rope) ==
    [env |-> <<>>, table |-> SymbolTableDefault,
     fields |-> <<>>, service_methods |-> <<>>, params |-> <<>>, locals |-> <<>>,
     rope |-> rope,
     symbol_ident_spans |-> <<>>, symbol_ident_names |-> <<>>,
     primitive_spans |-> <<>>, keyword_spans |-> <<>>, actor |-> None,
     scope_stack |-> <<>>, err |-> None]

\* find_symbol searching the environment from its front.
find_symbol_first(ctx, name) ==
    LET hits == {i \in 1..Len(ctx.env) : ctx.env[i].name = name}
    IN IF hits = {} THEN None
       ELSE Some(ctx.env[CHOOSE i \in hits : \A j \in hits : i <= j].span)

\* Ctx::find_symbol: the span of the last env entry with that name.
find_symbol(ctx, name) ==
    LET hits == {i \in 1..Len(ctx.env) : ctx.env[i].name = name}
    IN IF hits = {} THEN None
       ELSE Some(ctx.env[CHOOSE i \in hits : \A j \in hits : j <= i].span)

push_scope(ctx, span) == [ctx EXCEPT !.scope_stack = Append(@, span)]

pop_scope(ctx) ==
    IF ctx.scope_stack = <<>> THEN ctx
    ELSE [ctx EXCEPT !.scope_stack = SubSeq(@, 1, Len(@) - 1)]

current_scope(ctx) ==
    IF ctx.scope_stack = <<>> THEN None
    ELSE Some(ctx.scope_stack[Len(ctx.scope_stack)])

\* Ctx::register_symbol_slot: one slot per symbol in the per-symbol overlays.
register_symbol_slot(ctx) ==
    [ctx EXCEPT !.symbol_ident_spans = Append(@, None),
                !.symbol_ident_names = Append(@, None)]

\* Ctx::declare_symbol
declare_symbol(ctx, name, span) ==
    LET symbol_id == Len(ctx.table.symbol_id_to_span)
        slotted == register_symbol_slot([ctx EXCEPT !.table = add_symbol(@, span)])
        named == IF symbol_id + 1 <= Len(slotted.symbol_ident_names)
                 THEN [slotted EXCEPT !.symbol_ident_names[symbol_id + 1] = Some(name)]
                 ELSE slotted
    IN [named EXCEPT !.env = Append(@, [name |-> name, span |-> span])]

register_keyword_within(ctx, span, keyword, from_end) ==
    IF span.start >= span.end THEN ctx
    ELSE LET keyword_span ==
                find_identifier_span(ctx.rope, span, keyword_text(keyword), from_end)
         IN IF IsNone(keyword_span) THEN ctx
            ELSE [ctx EXCEPT !.keyword_spans =
                    Append(@, [span |-> Unwrap(keyword_span), keyword |-> keyword])]

register_keyword(ctx, span, keyword) == register_keyword_within(ctx, span, keyword, FALSE)

register_keyword_from_end(ctx, span, keyword) ==
    register_keyword_within(ctx, span, keyword, TRUE)

register_primitive(ctx, span, kind) ==
    IF span.start >= span.end THEN ctx
    ELSE LET prim_span == find_identifier_span(ctx.rope, span, primitive_keyword(kind), FALSE)
         IN IF IsNone(prim_span) THEN ctx
            ELSE [ctx EXCEPT !.primitive_spans =
                    Append(@, [span |-> Unwrap(prim_span), kind |-> kind])]

register_blob(ctx, span) ==
    IF span.start >= span.end THEN ctx
    ELSE LET blob_span == find_identifier_span(ctx.rope, span, Chars_blob, FALSE)
         IN IF IsNone(blob_span) THEN ctx
            ELSE [ctx EXCEPT !.primitive_spans =
                    Append(@, [span |-> Unwrap(blob_span), kind |-> "blob"])]

\* The text of line l of the rope, its line break included.
line_text(rope, l) ==
    SubSeq(rope, line_to_char(rope, l) + 1, line_to_char(rope, l + 1))

\* Ctx::register_import_keyword: the "import" of the declaration's line,
\* or else of the first line that names "import" and the path.
register_import_keyword(ctx, span, path) ==
    LET rope == ctx.rope
        line_idx == char_to_line(rope, span.start)
        line_start == line_to_char(rope, line_idx)
        line_span == Span(line_start, line_start + line_len_chars(rope, line_idx))
        direct == IF span.start < span.end
                  THEN find_identifier_span(rope, line_span, keyword_text("Import"), FALSE)
                  ELSE None
        lines == {l \in 0..(len_lines(rope) - 1) :
                    /\ match_indices(line_text(rope, l), keyword_text("Import")) # {}
                    /\ match_indices(line_text(rope, l), NameChars(path)) # {}}
    IN IF IsSome(direct)
       THEN [ctx EXCEPT !.keyword_spans =
                Append(@, [span |-> Unwrap(direct), keyword |-> "Import"])]
       ELSE IF lines = {} THEN ctx
       ELSE LET l == CHOOSE x \in lines : \A y \in lines : x <= y
                hits == match_indices(line_text(rope, l), keyword_text("Import"))
                idx == CHOOSE i \in hits : \A j \in hits : i <= j
                start == line_to_char(rope, l) + idx - 1
            IN [ctx EXCEPT !.keyword_spans =
                    Append(@, [span |-> Span(start, start + 6), keyword |-> "Import"])]

\* Ctx::register_import_keywords_from_text: every line that starts with
\* "import" gets a keyword span, unless it has one.
RECURSIVE import_keywords_from_lines(_, _)
import_keywords_from_lines(ctx, l) ==
    IF l >= len_lines(ctx.rope) THEN ctx
    ELSE LET text == line_text(ctx.rope, l)
             trimmed == trim_start(text)
             start == line_to_char(ctx.rope, l) + (Len(text) - Len(trimmed))
             span == Span(start, start + 6)
             hit == /\ starts_with(trimmed, keyword_text("Import"))
                    /\ (Len(trimmed) > 6 =>
                            (IsWhitespace(trimmed[7]) \/ trimmed[7] = "\""))
                    /\ ~\E i \in 1..Len(ctx.keyword_spans) :
                            /\ ctx.keyword_spans[i].keyword = "Import"
                            /\ ctx.keyword_spans[i].span = span
         IN import_keywords_from_lines(
                IF hit THEN [ctx EXCEPT !.keyword_spans =
                                Append(@, [span |-> span, keyword |-> "Import"])]
                ELSE ctx,
                l + 1)

register_import_keywords_from_text(ctx) == import_keywords_from_lines(ctx, 0)

\* Ctx::register_field (docs, parent name and label text left out)
register_field(ctx, field) ==
    LET label_span == compute_field_label_span(field, ctx.rope)
        type_span == IF field.typ.span.start < field.typ.span.end
                     THEN Some(field.typ.span) ELSE None
        pushed == [ctx EXCEPT !.fields =
                      Append(@, [span |-> field.span, label_span |-> label_span,
                                 type_span |-> type_span])]
        scope == current_scope(ctx)
    IN IF IsSome(scope) /\ IsSome(label_span)
       THEN [pushed EXCEPT !.locals =
                Append(@, [name |-> field.label, span |-> Unwrap(label_span),
                           scope |-> Unwrap(scope), is_definition |-> FALSE])]
       ELSE pushed

\* Ctx::register_service_method (docs, parent name and signature left out)
register_service_method(ctx, binding) ==
    [ctx EXCEPT !.service_methods =
        Append(@, [span |-> binding.span,
                   name_span |-> compute_binding_ident_span(binding, ctx.rope),
                   type_span |-> IF binding.typ.span.start < binding.typ.span.end
                                 THEN Some(binding.typ.span) ELSE None])]

\* Ctx::register_function_params: the loop over the arguments.
RECURSIVE register_params(_, _, _, _)
register_params(ctx, args, cursor, func_span) ==
    IF args = <<>> THEN ctx
    ELSE LET arg == Head(args)
             from == Min(cursor, arg.span.start)
             name_span == compute_param_name_span(ctx.rope, Span(from, arg.span.start))
             span_start == IF IsSome(name_span) THEN Unwrap(name_span).start
                           ELSE arg.span.start
             local == IF IsSome(name_span)
                      THEN [ctx EXCEPT !.locals =
                              Append(@, [name |-> slice(ctx.rope, Unwrap(name_span)),
                                         span |-> Unwrap(name_span),
                                         scope |-> func_span, is_definition |-> TRUE])]
                      ELSE ctx
             pushed == [local EXCEPT !.params =
                          Append(@, [span |-> Span(span_start, arg.span.end),
                                     name_span |-> name_span,
                                     type_span |-> arg.span, role |-> "Argument"])]
         IN register_params(pushed, Tail(args), arg.span.end, func_span)

register_function_params(ctx, func_type, func_span) ==
    register_params(ctx, func_type.args, args_region_start(ctx.rope, func_span), func_span)

\* No hoisting: the first loop declares nothing.
hoist_dec_nothing(dec, ctx) == ctx

\* The first loop of analyze_program, for one declaration.
hoist_dec(dec, ctx) ==
    IF dec.dec = "TypD"
    THEN LET keyed == register_keyword(ctx, dec.binding.span, "Type")
             symbol_id == Len(keyed.table.symbol_id_to_span)
             declared == declare_symbol(keyed, dec.binding.id, dec.binding.span)
             ident_span == compute_binding_ident_span(dec.binding, ctx.rope)
         IN IF IsSome(ident_span) /\ symbol_id + 1 <= Len(declared.symbol_ident_spans)
            THEN [declared EXCEPT !.symbol_ident_spans[symbol_id + 1] = ident_span]
            ELSE declared
    ELSE register_symbol_slot(
            register_import_keyword(
                [ctx EXCEPT !.table =
                    add_import(@, dec.span, dec.path,
                               IF dec.dec = "ImportType" THEN "Type" ELSE "Service")],
                dec.span, dec.path))

UndefinedVariable(name, span) ==
    [error |-> "UndefinedVariable", name |-> name, span |-> span]

RECURSIVE register_modes(_, _, _)
register_modes(ctx, modes, span) ==
    IF modes = <<>> THEN ctx
    ELSE register_modes(register_keyword_from_end(ctx, span, Head(modes)),
                        Tail(modes), span)

RECURSIVE analyze_type(_, _)
RECURSIVE analyze_types(_, _)
RECURSIVE analyze_type_fields(_, _)
RECURSIVE analyze_bindings(_, _)

\* analyze_type; an Err returned by ? is ctx.err, and nothing runs after it.
analyze_type(idl_type, ctx) ==
    IF IsSome(ctx.err) THEN ctx
    ELSE CASE idl_type.kind = "PrimT" ->
                register_primitive(ctx, idl_type.span, idl_type.prim)
           [] idl_type.kind = "PrincipalT" ->
                register_keyword(ctx, idl_type.span, "Principal")
           [] idl_type.kind = "VarT" ->
                LET span == find_symbol(ctx, idl_type.name)
                IN IF IsNone(span)
                   THEN [ctx EXCEPT !.err =
                            Some(UndefinedVariable(idl_type.name, idl_type.span))]
                   ELSE IF Unwrap(span) \in DOMAIN ctx.table.span_to_symbol_id
                   THEN [ctx EXCEPT !.table =
                            add_reference(@, idl_type.span,
                                Some(ctx.table.span_to_symbol_id[Unwrap(span)]))]
                   ELSE ctx
           [] idl_type.kind = "FuncT" ->
                analyze_types(idl_type.rets,
                    analyze_types(idl_type.args,
                        register_modes(
                            register_function_params(
                                register_keyword(ctx, idl_type.span, "Func"),
                                idl_type, idl_type.span),
                            idl_type.modes, idl_type.span)))
           [] idl_type.kind = "OptT" ->
                analyze_type(idl_type.inner,
                             register_keyword(ctx, idl_type.span, "Opt"))
           [] idl_type.kind = "VecT" ->
                analyze_type(idl_type.inner,
                             IF is_blob(idl_type.span, ctx.rope)
                             THEN register_blob(ctx, idl_type.span)
                             ELSE register_keyword(ctx, idl_type.span, "Vec"))
           [] idl_type.kind \in {"RecordT", "VariantT"} ->
                LET keyed == register_keyword(ctx, idl_type.span,
                                 IF idl_type.kind = "RecordT" THEN "Record" ELSE "Variant")
                    done == analyze_type_fields(idl_type.fields,
                                                push_scope(keyed, idl_type.span))
                IN IF IsSome(done.err) THEN done ELSE pop_scope(done)
           [] idl_type.kind = "ServT" ->
                analyze_bindings(idl_type.bindings,
                                 register_keyword(ctx, idl_type.span, "Service"))
           [] idl_type.kind = "ClassT" ->
                analyze_type(idl_type.ret, analyze_types(idl_type.args, ctx))
           [] OTHER -> ctx

analyze_types(types, ctx) ==
    IF types = <<>> \/ IsSome(ctx.err) THEN ctx
    ELSE analyze_types(Tail(types), analyze_type(Head(types), ctx))

analyze_type_fields(fields, ctx) ==
    IF fields = <<>> \/ IsSome(ctx.err) THEN ctx
    ELSE analyze_type_fields(Tail(fields),
            analyze_type(Head(fields).typ, register_field(ctx, Head(fields))))

analyze_bindings(bindings, ctx) ==
    IF bindings = <<>> \/ IsSome(ctx.err) THEN ctx
    ELSE analyze_bindings(Tail(bindings),
            analyze_type(Head(bindings).typ,
                         register_service_method(ctx, Head(bindings))))

analyze_dec(dec, ctx) ==
    IF dec.dec = "TypD" THEN analyze_type(dec.binding.typ, ctx) ELSE ctx

\* analyze_actor (docs and rendered definition left out)
analyze_actor(actor, ctx) ==
    LET keyed == register_keyword(ctx, actor.span, "Service")
        named == [keyed EXCEPT !.actor =
                    Some([span |-> actor.span,
                          name_span |-> compute_actor_name_span(actor, ctx.rope)])]
    IN analyze_type(actor.typ, named)

RECURSIVE hoist_decs(_, _)
hoist_decs(decs, ctx) ==
    IF decs = <<>> THEN ctx
    ELSE LET rest(hoisted) == After(hoisted, hoist_decs(Tail(decs), hoisted))
         IN rest(hoist_dec(Head(decs), ctx))

RECURSIVE analyze_decs(_, _)
analyze_decs(decs, ctx) ==
    IF decs = <<>> \/ IsSome(ctx.err) THEN ctx
    ELSE analyze_decs(Tail(decs), analyze_dec(Head(decs), ctx))

\* Lapper::insert; among intervals of equal start and stop the new one is
\* put last.
lapper_insert(intervals, elem) ==
    LET points == lapper_insert_points(intervals, elem)
    IN lapper_insert_at(intervals, elem, CHOOSE i \in points : \A j \in points : j <= i)

RECURSIVE lapper_insert_all(_, _)
lapper_insert_all(intervals, elems) ==
    IF elems = <<>> THEN intervals
    ELSE IF Len(elems) = 1 THEN lapper_insert(intervals, Head(elems))
    ELSE LET half == Len(elems) \div 2
             rest(first) ==
                 After(first, lapper_insert_all(first, SubSeq(elems, half + 1, Len(elems))))
         IN rest(lapper_insert_all(intervals, SubSeq(elems, 1, half)))

\* The intervals a span list contributes, in list order: make(i) is the
\* sequence of intervals of the i-th entry (0-based ids).
RECURSIVE intervals_of(_, _, _)
intervals_of(n, make(_), i) ==
    IF i >= n THEN <<>> ELSE make(i) \o intervals_of(n, make, i + 1)

\* analyze_program: the identifier index built from the finished Ctx.
build_ident_range(ctx) ==
    LET table == ctx.table
        symbol(i) ==
            LET range == table.symbol_id_to_span[i + 1]
                span == IF i + 1 <= Len(ctx.symbol_ident_spans)
                           /\ IsSome(ctx.symbol_ident_spans[i + 1])
                        THEN Unwrap(ctx.symbol_ident_spans[i + 1]) ELSE range
            IN <<Interval(span.start, span.end, IdentBinding(i))>>
        reference(i) ==
            LET range == table.reference_id_to_reference[i + 1].span
            IN <<Interval(range.start, range.end, IdentReference(i))>>
        field(i) ==
            LET metadata == ctx.fields[i + 1]
                label == IF IsSome(metadata.label_span)
                         THEN <<Interval(Unwrap(metadata.label_span).start,
                                         Unwrap(metadata.label_span).end,
                                         IdentField(i, "Label"))>>
                         ELSE <<>>
                type == IF /\ IsSome(metadata.type_span)
                           /\ Unwrap(metadata.type_span).start < Unwrap(metadata.type_span).end
                           /\ metadata.label_span # metadata.type_span
                        THEN <<Interval(Unwrap(metadata.type_span).start,
                                        Unwrap(metadata.type_span).end,
                                        IdentField(i, "Type"))>>
                        ELSE <<>>
            IN label \o type
        method(i) ==
            LET name_span == ctx.service_methods[i + 1].name_span
            IN IF IsSome(name_span)
               THEN <<Interval(Unwrap(name_span).start, Unwrap(name_span).end,
                               IdentServiceMethod(i))>>
               ELSE <<>>
        param(i) ==
            LET name_span == ctx.params[i + 1].name_span
            IN IF IsSome(name_span)
               THEN <<Interval(Unwrap(name_span).start, Unwrap(name_span).end,
                               IdentFuncParam(i))>>
               ELSE <<>>
        primitive(i) ==
            LET entry == ctx.primitive_spans[i + 1]
            IN IF entry.span.start < entry.span.end
               THEN <<Interval(entry.span.start, entry.span.end, IdentPrimitive(entry.kind))>>
               ELSE <<>>
        keyword(i) ==
            LET entry == ctx.keyword_spans[i + 1]
            IN IF entry.span.start < entry.span.end
               THEN <<Interval(entry.span.start, entry.span.end, IdentKeyword(entry.keyword))>>
               ELSE <<>>
        actor == IF /\ IsSome(ctx.actor)
                    /\ IsSome(Unwrap(ctx.actor).name_span)
                    /\ Unwrap(Unwrap(ctx.actor).name_span).start
                         < Unwrap(Unwrap(ctx.actor).name_span).end
                 THEN <<Interval(Unwrap(Unwrap(ctx.actor).name_span).start,
                                 Unwrap(Unwrap(ctx.actor).name_span).end, IdentActor)>>
                 ELSE <<>>
    IN lapper_insert_all(<<>>,
            intervals_of(Len(table.symbol_id_to_span), symbol, 0)
            \o intervals_of(Len(table.reference_id_to_reference), reference, 0)
            \o intervals_of(Len(ctx.fields), field, 0)
            \o intervals_of(Len(ctx.service_methods), method, 0)
            \o intervals_of(Len(ctx.params), param, 0)
            \o intervals_of(Len(ctx.primitive_spans), primitive, 0)
            \o intervals_of(Len(ctx.keyword_spans), keyword, 0)
            \o actor)

\* The Semantic a finished pass returns.
SemanticOf(ctx) ==
    LET semantic(final) ==
            [table |-> final.table,
             ident_range |-> build_ident_range(final),
             fields |-> final.fields,
             service_methods |-> final.service_methods,
             params |-> final.params,
             locals |-> final.locals,
             symbol_ident_spans |-> final.symbol_ident_spans,
             symbol_ident_names |-> final.symbol_ident_names,
             primitive_spans |-> final.primitive_spans,
             keyword_spans |-> final.keyword_spans,
             actor |-> final.actor]
    IN semantic(register_import_keywords_from_text(ctx))

\* A result that keeps the partial Semantic next to the error.
analyze_result_partial(ctx) ==
    [semantic |-> Some(SemanticOf(ctx)), err |-> ctx.err]

\* analyze_program: Ok(Semantic) or Err(SemanticError), never both.
analyze_result(ctx) ==
    IF IsSome(ctx.err)
    THEN [semantic |-> None, err |-> ctx.err]
    ELSE [semantic |-> Some(SemanticOf(ctx)), err |-> None]

\* analyze_program, the actor after the declarations' bodies.
analyze_program_actor(actor, bodies) ==
    IF IsSome(actor) /\ IsNone(bodies.err)
    THEN analyze_actor(Unwrap(actor), bodies) ELSE bodies

analyze_program(ast, rope) ==
    analyze_result(
        analyze_program_actor(ast.actor,
            analyze_decs(ast.decs, hoist_decs(ast.decs, CtxNew(rope)))))

(***************************************************************************)
(* navigation.rs: the identifier under an offset.  Vec::get is VecGet;     *)
(* the `?` of the code is the None of the result.                          *)
(***************************************************************************)
VecGet(vec, index) == IF index + 1 \in DOMAIN vec THEN Some(vec[index + 1]) ELSE None

find_import(imports, symbol_id) ==
    LET hits == {i \in DOMAIN imports : imports[i].symbol_id = symbol_id}
    IN IF hits = {} THEN None
       ELSE Some(imports[CHOOSE i \in hits : \A j \in hits : i <= j])

IdentifierInfo(ident_span) ==
    [ident_span |-> ident_span, definition_span |-> None, symbol_id |-> None,
     reference_id |-> None, import |-> None, field |-> None,
     service_method |-> None, param |-> None, primitive |-> None,
     keyword |-> None, actor |-> None]

\* The Binding arm giving the identifier's span as the definition span.
lookup_binding_ident_only(semantic, symbol_id) ==
    LET fallback_span == VecGet(semantic.table.symbol_id_to_span, symbol_id)
    IN IF IsNone(fallback_span) THEN None
       ELSE LET own == VecGet(semantic.symbol_ident_spans, symbol_id)
                span == IF IsSome(own) /\ IsSome(Unwrap(own))
                        THEN Unwrap(Unwrap(own)) ELSE Unwrap(fallback_span)
            IN Some([IdentifierInfo(span) EXCEPT
                        !.definition_span = Some(span),
                        !.symbol_id = Some(symbol_id),
                        !.import = find_import(semantic.table.imports, symbol_id)])

\* IdentType::Binding(symbol_id)
lookup_binding(semantic, symbol_id) ==
    LET fallback_span == VecGet(semantic.table.symbol_id_to_span, symbol_id)
    IN IF IsNone(fallback_span) THEN None
       ELSE LET own == VecGet(semantic.symbol_ident_spans, symbol_id)
                span == IF IsSome(own) /\ IsSome(Unwrap(own))
                        THEN Unwrap(Unwrap(own)) ELSE Unwrap(fallback_span)
            IN Some([IdentifierInfo(span) EXCEPT
                        !.definition_span = fallback_span,
                        !.symbol_id = Some(symbol_id),
                        !.import = find_import(semantic.table.imports, symbol_id)])

\* IdentType::Reference(reference_id)
lookup_reference(semantic, reference_id) ==
    LET reference == VecGet(semantic.table.reference_id_to_reference, reference_id)
    IN IF IsNone(reference) THEN None
       ELSE LET symbol_id == Unwrap(reference).symbol_id
            IN Some([IdentifierInfo(Unwrap(reference).span) EXCEPT
                        !.definition_span =
                            IF IsSome(symbol_id)
                            THEN VecGet(semantic.table.symbol_id_to_span, Unwrap(symbol_id))
                            ELSE None,
                        !.symbol_id = symbol_id,
                        !.reference_id = Some(reference_id),
                        !.import = IF IsSome(symbol_id)
                                   THEN find_import(semantic.table.imports, Unwrap(symbol_id))
                                   ELSE None])

\* IdentType::Field(field_id, part)
lookup_field(semantic, field_id, part) ==
    LET metadata == VecGet(semantic.fields, field_id)
    IN IF IsNone(metadata) THEN None
       ELSE LET ident_span == IF part = "Label" THEN Unwrap(metadata).label_span
                              ELSE Unwrap(metadata).type_span
            IN IF IsNone(ident_span) THEN None
               ELSE Some([IdentifierInfo(Unwrap(ident_span)) EXCEPT
                            !.definition_span = Some(Unwrap(metadata).span),
                            !.field = Some([span |-> Unwrap(metadata).span,
                                            label_span |-> Unwrap(metadata).label_span,
                                            type_span |-> Unwrap(metadata).type_span,
                                            role |-> part])])

\* IdentType::ServiceMethod(method_id)
lookup_service_method(semantic, method_id) ==
    LET metadata == VecGet(semantic.service_methods, method_id)
    IN IF IsNone(metadata) \/ IsNone(Unwrap(metadata).name_span) THEN None
       ELSE Some([IdentifierInfo(Unwrap(Unwrap(metadata).name_span)) EXCEPT
                    !.definition_span = Some(Unwrap(metadata).span),
                    !.service_method = Some([span |-> Unwrap(metadata).span,
                                             type_span |-> Unwrap(metadata).type_span])])

\* IdentType::FuncParam(param_id)
lookup_param(semantic, param_id) ==
    LET metadata == VecGet(semantic.params, param_id)
    IN IF IsNone(metadata) \/ IsNone(Unwrap(metadata).name_span) THEN None
       ELSE Some([IdentifierInfo(Unwrap(Unwrap(metadata).name_span)) EXCEPT
                    !.definition_span = Some(Unwrap(metadata).span),
                    !.param = Some([span |-> Unwrap(metadata).span,
                                    type_span |-> Unwrap(metadata).type_span,
                                    role |-> Unwrap(metadata).role])])

\* IdentType::Actor
lookup_actor(semantic) ==
    IF IsNone(semantic.actor) \/ IsNone(Unwrap(semantic.actor).name_span) THEN None
    ELSE Some([IdentifierInfo(Unwrap(Unwrap(semantic.actor).name_span)) EXCEPT
                 !.definition_span = Some(Unwrap(semantic.actor).span),
                 !.actor = Some([span |-> Unwrap(semantic.actor).span])])

lookup_identifier(semantic, offset) ==
    LET best == best_interval(semantic.ident_range, offset)
    IN IF IsNone(best) THEN None
       ELSE LET ident_type == Unwrap(best).val
                span == Unwrap(best).span
            IN CASE ident_type.tag = "Binding" -> lookup_binding(semantic, ident_type.id)
                 [] ident_type.tag = "Reference" -> lookup_reference(semantic, ident_type.id)
                 [] ident_type.tag = "Field" ->
                        lookup_field(semantic, ident_type.id, ident_type.part)
                 [] ident_type.tag = "ServiceMethod" ->
                        lookup_service_method(semantic, ident_type.id)
                 [] ident_type.tag = "FuncParam" -> lookup_param(semantic, ident_type.id)
                 [] ident_type.tag = "Primitive" ->
                        Some([IdentifierInfo(span) EXCEPT
                                !.primitive = Some(ident_type.prim)])
                 [] ident_type.tag = "Keyword" ->
                        Some([IdentifierInfo(span) EXCEPT
                                !.keyword = Some(ident_type.keyword)])
                 [] ident_type.tag = "Actor" -> lookup_actor(semantic)


(***************************************************************************)
(* The parsing front end is an external library.  It is modelled on a      *)
(* family of sample programs: every declaration is laid out in a column    *)
(* of DecStride characters, one declaration per line, so that a program's  *)
(* text and the spans of its syntax tree are both known, and parse is the  *)
(* inverse of that layout.  A text outside the family has no syntax tree   *)
(* and one parse error.                                                    *)
(***************************************************************************)
DecStride == 24

DeclNames == {"A", "B"}
RefNames == {"A", "B", "C"}

Chars_type == <<"t", "y", "p", "e", " ">>
Chars_nat == <<"n", "a", "t">>
Chars_opt == <<"o", "p", "t", " ">>
Chars_record == <<"r", "e", "c", "o", "r", "d", "{", "f", ":">>
Chars_field_g == <<";", "g", ":">>
Chars_func == <<"f", "u", "n", "c", "(">>
Chars_arrow == <<")", "-", ">", "(">>
Chars_import == <<"i", "m", "p", "o", "r", "t", " ", "\"", "x", "\"">>
Chars_service == <<"s", "e", "r", "v", "i", "c", "e", ":", "{", "m", ":", "(">>
Chars_service_end == <<")", "-", ">", "(", ")", "}">>

\* The shapes of a declaration's type: [k, n, m] with n, m the names used.
TypeShapes ==
    {[k |-> 1, n |-> "A", m |-> "A"]}
    \cup {[k |-> k, n |-> n, m |-> "A"] : k \in {2, 3}, n \in RefNames}
    \cup {[k |-> 4, n |-> n, m |-> m] : n \in RefNames, m \in RefNames}
    \cup {[k |-> 5, n |-> n, m |-> "A"] : n \in RefNames}

DecChoices ==
    {[dec |-> "TypD", id |-> id, shape |-> sh] : id \in DeclNames, sh \in TypeShapes}
    \cup {[dec |-> "Import", id |-> "x", shape |-> [k |-> 1, n |-> "A", m |-> "A"]]}

\* The text of a type of shape sh, which starts at column 7 of its line.
TypeText(sh) ==
    CASE sh.k = 1 -> Chars_nat
      [] sh.k = 2 -> <<sh.n>>
      [] sh.k = 3 -> Chars_opt \o <<sh.n>>
      [] sh.k = 4 -> Chars_record \o <<sh.n>> \o Chars_field_g \o <<sh.m, "}">>
      [] OTHER -> Chars_func \o <<sh.n>> \o Chars_arrow \o <<sh.m, ")">>

\* The syntax tree of a type of shape sh in the declaration that starts at base.
TypeNode(sh, base) ==
    CASE sh.k = 1 -> PrimT("nat", Span(base + 7, base + 10))
      [] sh.k = 2 -> VarT(sh.n, Span(base + 7, base + 8))
      [] sh.k = 3 -> OptT(VarT(sh.n, Span(base + 11, base + 12)), Span(base + 7, base + 12))
      [] sh.k = 4 ->
            RecordT(<<TypeField("f", VarT(sh.n, Span(base + 16, base + 17)),
                                Span(base + 14, base + 17)),
                      TypeField("g", VarT(sh.m, Span(base + 20, base + 21)),
                                Span(base + 18, base + 21))>>,
                    Span(base + 7, base + 22))
      [] OTHER ->
            FuncT(<<VarT(sh.n, Span(base + 12, base + 13))>>,
                  <<VarT(sh.m, Span(base + 17, base + 18))>>, <<>>,
                  Span(base + 7, base + 19))

PadLine(text) ==
    text \o [i \in 1..(DecStride - 1 - Len(text)) |-> " "] \o <<"\n">>

DecText(c) ==
    IF c.dec = "Import" THEN PadLine(Chars_import \o <<";">>)
    ELSE PadLine(Chars_type \o <<c.id, "=">> \o TypeText(c.shape) \o <<";">>)

DecNode(c, base) ==
    IF c.dec = "Import" THEN ImportType("x", Span(base, base + 10))
    ELSE LET typ == TypeNode(c.shape, base)
         IN TypD(Binding(c.id, typ, Span(base, typ.span.end)))

\* The actor "service:{m:(n)->()}" on the line that starts at base.
ActorText(n) == Chars_service \o <<n>> \o Chars_service_end

ActorNode(n, base) ==
    IDLActorType(
        ServT(<<Binding("m",
                        FuncT(<<VarT(n, Span(base + 12, base + 13))>>, <<>>, <<>>,
                              Span(base + 11, base + 18)),
                        Span(base + 9, base + 18))>>,
              Span(base + 8, base + 19)),
        Span(base, base + 19))

\* A sample program: its declarations' choices and the name its actor uses
\* (None: no actor).
RECURSIVE ProgText(_)
ProgText(p) ==
    IF p.decs = <<>>
    THEN IF IsSome(p.actor) THEN ActorText(Unwrap(p.actor)) ELSE <<>>
    ELSE DecText(Head(p.decs)) \o ProgText([p EXCEPT !.decs = Tail(@)])

ProgAst(p) ==
    IDLProg([i \in 1..Len(p.decs) |-> DecNode(p.decs[i], (i - 1) * DecStride)],
            IF IsSome(p.actor)
            THEN Some(ActorNode(Unwrap(p.actor), Len(p.decs) * DecStride))
            ELSE None)


SubSeqFrom(seq, from) == SubSeq(seq, from, Len(seq))

\* The parser on the sample layout: full lines are declarations, a last
\* line without line break is the actor.
ParseLine(line) ==
    LET hits == {c \in DecChoices : DecText(c) = line}
    IN IF hits = {} THEN None ELSE Some(CHOOSE c \in hits : TRUE)

ParseActor(line) ==
    LET hits == {n \in RefNames : ActorText(n) = line}
    IN IF hits = {} THEN None ELSE Some(CHOOSE n \in hits : TRUE)

ParseProgram(rope) ==
    LET n == Len(rope) \div DecStride
        lines == [i \in 1..n |->
                    ParseLine(SubSeq(rope, (i - 1) * DecStride + 1, i * DecStride))]
        rest == SubSeqFrom(rope, n * DecStride + 1)
        actor == ParseActor(rest)
    IN IF (\E i \in 1..n : IsNone(lines[i])) \/ (rest # <<>> /\ IsNone(actor))
       THEN None
       ELSE Some([decs |-> [i \in 1..n |-> Unwrap(lines[i])],
                  actor |-> IF rest = <<>> THEN None ELSE actor])

ParseErrorAt(kind, start, end) == [kind |-> kind, start |-> start, end |-> end]

\* One more sample text, outside the layout: a service whose method
\* "m:()->" continues with its results "()" on the next line.
Text_method_lines ==
    <<"s", "e", "r", "v", "i", "c", "e", ":", "{", "m", ":", "(", ")", "-", ">", "\n",
      "(", ")", "}">>

Ast_method_lines ==
    IDLProg(<<>>,
            Some(IDLActorType(
                    ServT(<<Binding("m", FuncT(<<>>, <<>>, <<>>, Span(11, 18)),
                                    Span(9, 18))>>,
                          Span(8, 19)),
                    Span(0, 19))))

\* One character of the text that takes two bytes in UTF-8 (U+00E9), and
\* the characters no token of the language starts with.
Char_e_acute == "U+00E9"
TwoByteChars == {Char_e_acute}
UnknownChars == {Char_e_acute, "#"}

\* str::len of the text: its length in bytes.
len_bytes(rope) == Len(rope) + Cardinality({i \in DOMAIN rope : rope[i] \in TwoByteChars})

\* The lexical errors RecordingTokenizer records: one for every character
\* no token starts with, spanning the bytes of that character.
lex(rope) ==
    LET at == SelectSeq([i \in 1..Len(rope) |-> i], LAMBDA i : rope[i] \in UnknownChars)
    IN [k \in 1..Len(at) |->
          ParseErrorAt("Lexer", len_bytes(SubSeq(rope, 1, at[k] - 1)),
                       len_bytes(SubSeq(rope, 1, at[k])))]

\* candid_lang::parse: the syntax tree, if any, and the collected errors.
\* The lexical errors come first; the parser's User error that repeats a
\* recorded lexical error is skipped.  A program followed by a stray ";" is
\* recovered with one ExtraToken error; any other text outside the sample
\* layout has no syntax tree.
parse(rope) ==
    LET whole == ParseProgram(rope)
        lossy == IF rope # <<>> /\ rope[Len(rope)] = ";"
                 THEN ParseProgram(SubSeq(rope, 1, Len(rope) - 1)) ELSE None
    IN IF lex(rope) # <<>>
       THEN [ast |-> None, parse_errors |-> lex(rope)]
       ELSE IF rope = Text_method_lines
       THEN [ast |-> Some(Ast_method_lines), parse_errors |-> <<>>]
       ELSE IF IsSome(whole)
       THEN [ast |-> Some(ProgAst(Unwrap(whole))), parse_errors |-> <<>>]
       ELSE IF IsSome(lossy)
       THEN [ast |-> Some(ProgAst(Unwrap(lossy))),
             parse_errors |-> <<ParseErrorAt("ExtraToken", Len(rope) - 1, Len(rope))>>]
       ELSE [ast |-> None,
             parse_errors |-> <<ParseErrorAt("UnrecognizedEof", Len(rope), Len(rope))>>]

(***************************************************************************)
(* Diagnostics.                                                            *)
(***************************************************************************)
RangeDefault == [start |-> Position(0, 0), end |-> Position(0, 0)]
Range(start, end) == [start |-> start, end |-> end]
Diagnostic(range, source) == [range |-> range, source |-> source]

range_single_char(offset, rope) ==
    LET start == offset_to_position(offset, rope)
        end == offset_to_position(offset + 1, rope)
    IN IF IsNone(start) THEN RangeDefault
       ELSE Range(Unwrap(start),
                  IF IsSome(end) THEN Unwrap(end)
                  ELSE Position(Unwrap(start).line, Unwrap(start).character + 1))

range_offsets(start_offset, end_offset, rope) ==
    LET start == offset_to_position(start_offset, rope)
        end == offset_to_position(end_offset, rope)
    IN IF IsSome(start) /\ IsSome(end) THEN Range(Unwrap(start), Unwrap(end))
       ELSE RangeDefault

\* The diagnostic of one collected error: Some(diagnostic), or None for a
\* lexical error whose span has no position.
parse_error_to_diagnostic(err, rope) ==
    CASE err.kind \in {"InvalidToken", "UnrecognizedEof"} ->
            Some(Diagnostic(range_single_char(err.start, rope), "parser"))
      [] err.kind \in {"UnrecognizedToken", "ExtraToken"} ->
            Some(Diagnostic(range_offsets(err.start, err.end, rope), "parser"))
      [] err.kind = "User" -> Some(Diagnostic(RangeDefault, "parser"))
      [] OTHER ->
            LET start == offset_to_position(err.start, rope)
                end == offset_to_position(err.end, rope)
            IN IF IsSome(start) /\ IsSome(end)
               THEN Some(Diagnostic(Range(Unwrap(start), Unwrap(end)), "lexer"))
               ELSE None

RECURSIVE parse_diagnostics(_, _)
parse_diagnostics(parse_errors, rope) ==
    IF parse_errors = <<>> THEN <<>>
    ELSE parse_error_to_diagnostic(Head(parse_errors), rope)
            \o parse_diagnostics(Tail(parse_errors), rope)

\* The diagnostic on_change pushes for a SemanticError.
semantic_diagnostic(err, rope) ==
    LET start == offset_to_position(err.span.start, rope)
        end == offset_to_position(err.span.end, rope)
    IN IF IsSome(start) /\ IsSome(end)
       THEN Diagnostic(Range(Unwrap(start), Unwrap(end)), "")
       ELSE Diagnostic(RangeDefault, "semantic")

(***************************************************************************)
(* CompletionDocumentCache, DocumentSnapshot, AnalysisSnapshot.            *)
(***************************************************************************)
\* A build that gives no cache without Semantic.
CompletionDocumentCache_build_semantic_only(has_ast, has_semantic, version) ==
    IF ~has_semantic THEN None
    ELSE Some([spans |-> None, scope_index |-> None, has_ast |-> has_ast,
          has_semantic |-> has_semantic, version |-> version])

\* CompletionDocumentCache::build; the two OnceCells start empty (None).
CompletionDocumentCache_build(has_ast, has_semantic, version) ==
    IF ~has_ast /\ ~has_semantic THEN None
    ELSE Some([spans |-> None, scope_index |-> None, has_ast |-> has_ast,
               has_semantic |-> has_semantic, version |-> version])

\* is_fresh that compares nothing when both versions are present.
is_fresh_ignoring_versions(cache_version, version) ==
    IF IsSome(cache_version) /\ IsNone(version) THEN FALSE ELSE TRUE

\* is_fresh that accepts a request without version.
is_fresh_without_request_version(cache_version, version) ==
    IF IsSome(cache_version) /\ IsSome(version)
    THEN Unwrap(cache_version) = Unwrap(version)
    ELSE TRUE

is_fresh(cache_version, version) ==
    IF IsSome(cache_version) /\ IsSome(version)
    THEN Unwrap(cache_version) = Unwrap(version)
    ELSE IF IsSome(cache_version) /\ IsNone(version) THEN FALSE
    ELSE TRUE

DocumentSnapshot(rope, version) == [rope |-> rope, version |-> version]

AnalysisSnapshot(ast, semantic, completion_cache, parse_errors, version) ==
    [ast |-> ast, semantic |-> semantic, completion_cache |-> completion_cache,
     parse_errors |-> parse_errors, version |-> version]

\* on_change, from the parse to the snapshot it is about to store:
\* [snapshot, diagnostics].
on_change_snapshot(parsed, diagnostics, analyzed, rope, version) ==
    IF IsSome(analyzed.semantic)
    THEN [snapshot |->
             Some(AnalysisSnapshot(parsed.ast, analyzed.semantic,
                     CompletionDocumentCache_build(TRUE, TRUE, version),
                     Len(parsed.parse_errors), version)),
          diagnostics |-> diagnostics]
    ELSE [snapshot |->
             Some(AnalysisSnapshot(parsed.ast, None,
                     CompletionDocumentCache_build(TRUE, FALSE, version),
                     Len(parsed.parse_errors), version)),
          diagnostics |->
             Append(diagnostics, semantic_diagnostic(Unwrap(analyzed.err), rope))]

on_change_analyzed(parsed, diagnostics, rope, version) ==
    IF IsNone(parsed.ast)
    THEN [snapshot |-> None, diagnostics |-> diagnostics]
    ELSE on_change_snapshot(parsed, diagnostics,
                            analyze_program(Unwrap(parsed.ast), rope), rope, version)

on_change_parsed(parsed, rope, version) ==
    on_change_analyzed(parsed, parse_diagnostics(parsed.parse_errors, rope), rope, version)

on_change_analysis(rope, version) == on_change_parsed(parse(rope), rope, version)

(***************************************************************************)
(* Task generations (tasks.rs).  A DocumentTaskState holds one counter per *)
(* task kind; a token keeps its Arc (the index into task_heap).            *)
(***************************************************************************)
DocumentTaskKinds == {"Completion", "Hover", "Analysis"}

DocumentTaskStateDefault == [k \in DocumentTaskKinds |-> 0]

\* TaskGeneration::next_token: fetch_add(1) + 1; [counter, token].
next_token(generation) == [counter |-> generation + 1, token |-> generation + 1]

\* A cancel that takes the counter back by one.
cancel_rewinds(generation) == generation - 1

\* TaskGeneration::cancel
cancel(generation) == generation + 1

\* A generation check that never reports a newer token.
is_cancelled_never(generation, expected) == FALSE

\* TaskGeneration::is_cancelled
is_cancelled(generation, expected) == generation # expected

DocumentTaskToken(kind, state, generation) ==
    [kind |-> kind, state |-> state, generation |-> generation]

NoToken == DocumentTaskToken("Completion", 0, 0)

\* ensure_active finding every token active.
ensure_active_always(heap, token) == "Ok"

\* DocumentTaskToken::ensure_active, on the heap of task states.
ensure_active(heap, token) ==
    IF is_cancelled(heap[token.state][token.kind], token.generation)
    THEN "Err" ELSE "Ok"

\* DocumentTaskToken::yield_and_check: the future yields to the scheduler
\* (the end of the handler's current segment) and, when it is resumed,
\* answers ensure_active.
yield_and_check(heap, token) == ensure_active(heap, token)

\* DocumentTaskToken::is_cancelled, on the heap of task states.
token_is_cancelled(heap, token) ==
    is_cancelled(heap[token.state][token.kind], token.generation)

\* task_token that never finds the document's entry.
task_token_fresh_state(states, heap, uri, kind) ==
    LET state == Len(heap) + 1
        heap1 == Append(heap, DocumentTaskStateDefault)
        next == next_token(heap1[state][kind])
    IN [task_states |-> [states EXCEPT ![uri] = Some(state)],
        task_heap |-> [heap1 EXCEPT ![state][kind] = next.counter],
        token |-> DocumentTaskToken(kind, state, next.token)]

\* task_token that advances the counters of all kinds of the document.
task_token_all_kinds(states, heap, uri, kind) ==
    LET found == IsSome(states[uri])
        state == IF found THEN Unwrap(states[uri]) ELSE Len(heap) + 1
        heap1 == IF found THEN heap ELSE Append(heap, DocumentTaskStateDefault)
        next == next_token(heap1[state][kind])
    IN [task_states |-> IF found THEN states ELSE [states EXCEPT ![uri] = Some(state)],
        task_heap |-> [heap1 EXCEPT ![state] = [k \in DocumentTaskKinds |-> @[k] + 1]],
        token |-> DocumentTaskToken(kind, state, next.token)]

\* CandidLanguageServer::task_token: [task_states, task_heap, token].
task_token(states, heap, uri, kind) ==
    LET found == IsSome(states[uri])
        state == IF found THEN Unwrap(states[uri]) ELSE Len(heap) + 1
        heap1 == IF found THEN heap ELSE Append(heap, DocumentTaskStateDefault)
        next == next_token(heap1[state][kind])
    IN [task_states |-> IF found THEN states ELSE [states EXCEPT ![uri] = Some(state)],
        task_heap |-> [heap1 EXCEPT ![state][kind] = next.counter],
        token |-> DocumentTaskToken(kind, state, next.token)]


Chars_kw_type == <<"t", "y", "p", "e">>
Chars_kw_service == <<"s", "e", "r", "v", "i", "c", "e">>
Chars_kw_record == <<"r", "e", "c", "o", "r", "d">>
Chars_kw_variant == <<"v", "a", "r", "i", "a", "n", "t">>

\* contains_keyword: an occurrence of the keyword that is not part of a
\* longer identifier (the keywords used do not overlap themselves, so the
\* search that resumes behind a rejected occurrence misses none).
contains_keyword(text, keyword) ==
    \E i \in 1..(Len(text) - Len(keyword) + 1) :
        /\ SubSeq(text, i, i + Len(keyword) - 1) = keyword
        /\ (i > 1 => text[i - 1] \notin AsciiAlphanumeric \cup {"_"})
        /\ (i + Len(keyword) <= Len(text) =>
                text[i + Len(keyword)] \notin AsciiAlphanumeric \cup {"_"})

(***************************************************************************)
(* The cursor heuristics of the completion classifier.                     *)
(***************************************************************************)
CursorScanStateDefault ==
    [depth |-> 0, in_line_comment |-> FALSE, in_block_comment |-> FALSE,
     in_string |-> FALSE]

is_top_level(state) ==
    state.depth = 0 /\ ~state.in_block_comment /\ ~state.in_string
    /\ ~state.in_line_comment

in_comment(state) == state.in_block_comment \/ state.in_line_comment

\* A turn that counts braces before it looks at the mode it is in.
cursor_step_braces_first(text, i, acc) ==
    LET ch == text[i]
        peek == IF i < Len(text) THEN text[i + 1] ELSE ""
        state == acc.state
    IN IF acc.skip THEN [acc EXCEPT !.skip = FALSE]
       ELSE IF ch = "{" THEN [acc EXCEPT !.state.depth = @ + 1]
       ELSE IF ch = "}" THEN [acc EXCEPT !.state.depth = IF @ > 0 THEN @ - 1 ELSE @]
       ELSE IF state.in_string
       THEN IF acc.escape THEN [acc EXCEPT !.escape = FALSE]
            ELSE IF ch = "\\" THEN [acc EXCEPT !.escape = TRUE]
            ELSE IF ch = "\"" THEN [acc EXCEPT !.state.in_string = FALSE]
            ELSE acc
       ELSE IF state.in_line_comment
       THEN IF ch = "\n" THEN [acc EXCEPT !.state.in_line_comment = FALSE] ELSE acc
       ELSE IF state.in_block_comment
       THEN IF ch = "*" /\ peek = "/"
            THEN [acc EXCEPT !.state.in_block_comment = FALSE, !.skip = TRUE]
            ELSE acc
       ELSE CASE ch = "\"" -> [acc EXCEPT !.state.in_string = TRUE]
              [] ch = "/" /\ peek = "/" ->
                    [acc EXCEPT !.state.in_line_comment = TRUE, !.skip = TRUE]
              [] ch = "/" /\ peek = "*" ->
                    [acc EXCEPT !.state.in_block_comment = TRUE, !.skip = TRUE]
              [] OTHER -> acc

\* One turn of the loop of cursor_scan_state_from_text, at character i:
\* [state, escape, skip], where skip says that the turn took the next
\* character too (chars.next() after a peek).
cursor_step(text, i, acc) ==
    LET ch == text[i]
        peek == IF i < Len(text) THEN text[i + 1] ELSE ""
        state == acc.state
    IN IF acc.skip THEN [acc EXCEPT !.skip = FALSE]
       ELSE IF state.in_string
       THEN IF acc.escape THEN [acc EXCEPT !.escape = FALSE]
            ELSE IF ch = "\\" THEN [acc EXCEPT !.escape = TRUE]
            ELSE IF ch = "\"" THEN [acc EXCEPT !.state.in_string = FALSE]
            ELSE acc
       ELSE IF state.in_line_comment
       THEN IF ch = "\n" THEN [acc EXCEPT !.state.in_line_comment = FALSE] ELSE acc
       ELSE IF state.in_block_comment
       THEN IF ch = "*" /\ peek = "/"
            THEN [acc EXCEPT !.state.in_block_comment = FALSE, !.skip = TRUE]
            ELSE acc
       ELSE CASE ch = "\"" -> [acc EXCEPT !.state.in_string = TRUE]
              [] ch = "/" /\ peek = "/" ->
                    [acc EXCEPT !.state.in_line_comment = TRUE, !.skip = TRUE]
              [] ch = "/" /\ peek = "*" ->
                    [acc EXCEPT !.state.in_block_comment = TRUE, !.skip = TRUE]
              [] ch = "{" -> [acc EXCEPT !.state.depth = @ + 1]
              [] ch = "}" -> [acc EXCEPT !.state.depth = IF @ > 0 THEN @ - 1 ELSE @]
              [] OTHER -> acc

\* The loop of cursor_scan_state_from_text over the characters from..to,
\* taken by halves: the turns run in the order of the text.  The first
\* half is evaluated before the second starts (depth is a usize, so the
\* test on it is always true).
RECURSIVE cursor_scan(_, _, _, _)
cursor_scan(text, from, to, acc) ==
    IF from > to THEN acc
    ELSE IF from = to THEN cursor_step(text, from, acc)
    ELSE LET first == cursor_scan(text, from, (from + to) \div 2, acc)
         IN IF first.state.depth >= 0
            THEN cursor_scan(text, (from + to) \div 2 + 1, to, first)
            ELSE first

cursor_scan_state_from_text(text) ==
    cursor_scan(text, 1, Len(text),
                [state |-> CursorScanStateDefault, escape |-> FALSE, skip |-> FALSE]).state

inside_record_variant_block_from_text(text) ==
    LET open_pos == rfind(text, "{")
        prefix == trim_end(SubSeq(text, 1, open_pos - 1))
    IN /\ open_pos # 0
       /\ ~contains(SubSeqFrom(text, open_pos + 1), "}")
       /\ (ends_with(prefix, Chars_kw_record) \/ ends_with(prefix, Chars_kw_variant))

inside_service_block_from_text(text) ==
    LET open_pos == rfind(text, "{")
        prefix == trim_end(SubSeq(text, 1, open_pos - 1))
        colon_pos == rfind(prefix, ":")
    IN /\ open_pos # 0
       /\ ~contains(SubSeqFrom(text, open_pos + 1), "}")
       /\ colon_pos # 0
       /\ trim_start(trim_end(SubSeqFrom(prefix, colon_pos + 1))) = <<>>
       /\ contains_keyword(trim_end(SubSeq(prefix, 1, colon_pos - 1)), Chars_kw_service)

\* CursorContext::new
CursorContext_new(rope, offset) ==
    LET rope_len == len_chars(rope)
        clamped == Min(offset, rope_len)
        total_lines == Max(len_lines(rope), 1)
        last_line_index == total_lines - 1
        line_index == IF rope_len = 0 THEN 0
                      ELSE IF clamped = rope_len THEN last_line_index
                      ELSE char_to_line(rope, clamped)
        capped_index == Min(line_index, last_line_index)
        line_start == line_to_char(rope, capped_index)
        line_prefix == IF clamped >= line_start
                       THEN SubSeq(rope, line_start + 1, clamped) ELSE <<>>
        prefix == SubSeq(rope, 1, clamped)
    IN [clamped |-> clamped, rope_len |-> rope_len, line_start |-> line_start,
        trimmed_line |-> trim_end(line_prefix),
        cursor_state |-> cursor_scan_state_from_text(prefix),
        inside_record_variant_block |-> inside_record_variant_block_from_text(prefix),
        inside_service_block |-> inside_service_block_from_text(prefix)]

\* The heuristic without its Definition rule.
heuristic_context_without_definition(cursor_context) ==
    LET trimmed == cursor_context.trimmed_line
        cursor_state == cursor_context.cursor_state
        in_value_block == cursor_context.inside_record_variant_block
                          \/ cursor_context.inside_service_block
        eq_idx == rfind(trimmed, "=")
        colon_idx == rfind(trimmed, ":")
    IN IF cursor_context.rope_len = 0 THEN "TopLevel"
       ELSE IF cursor_context.clamped < cursor_context.line_start THEN "Unknown"
       ELSE IF in_comment(cursor_state) THEN "Comment"
       ELSE IF trimmed = <<>>
       THEN IF in_value_block THEN "Value"
            ELSE IF is_top_level(cursor_state) THEN "TopLevel" ELSE "Unknown"
       ELSE IF eq_idx # 0
               /\ starts_with(trim_start(trim_end(SubSeq(trimmed, 1, eq_idx - 1))),
                              Chars_kw_type)
       THEN "Type"
       ELSE IF colon_idx # 0
               /\ ~ends_with(trim_end(SubSeq(trimmed, 1, colon_idx - 1)), Chars_kw_service)
       THEN "Type"
       ELSE IF ~contains(trimmed, ":") /\ in_value_block THEN "Value"
       ELSE IF is_top_level(cursor_state) THEN "TopLevel"
       ELSE "Unknown"

heuristic_context_from_cursor(cursor_context) ==
    LET trimmed == cursor_context.trimmed_line
        cursor_state == cursor_context.cursor_state
        in_value_block == cursor_context.inside_record_variant_block
                          \/ cursor_context.inside_service_block
        eq_idx == rfind(trimmed, "=")
        colon_idx == rfind(trimmed, ":")
    IN IF cursor_context.rope_len = 0 THEN "TopLevel"
       ELSE IF cursor_context.clamped < cursor_context.line_start THEN "Unknown"
       ELSE IF in_comment(cursor_state) THEN "Comment"
       ELSE IF trimmed = <<>>
       THEN IF in_value_block THEN "Value"
            ELSE IF is_top_level(cursor_state) THEN "TopLevel" ELSE "Unknown"
       ELSE IF eq_idx # 0
               /\ starts_with(trim_start(trim_end(SubSeq(trimmed, 1, eq_idx - 1))),
                              Chars_kw_type)
       THEN "Type"
       ELSE IF colon_idx # 0
               /\ ~ends_with(trim_end(SubSeq(trimmed, 1, colon_idx - 1)), Chars_kw_service)
       THEN "Type"
       ELSE IF ~contains(trimmed, ":") /\ in_value_block THEN "Value"
       ELSE IF starts_with(trim_start(trimmed), Chars_kw_type) /\ ~contains(trimmed, "=")
       THEN "Definition"
       ELSE IF is_top_level(cursor_state) THEN "TopLevel"
       ELSE "Unknown"

\* heuristic_context
heuristic_context(offset, rope) ==
    IF IsNone(offset) THEN "Unknown"
    ELSE heuristic_context_from_cursor(CursorContext_new(rope, Unwrap(offset)))

(***************************************************************************)
(* ContextSpans: the spans of a document by completion context.            *)
(***************************************************************************)
ContextSpansDefault == [type_spans |-> <<>>, value_spans |-> <<>>, definition_spans |-> <<>>]

add_type_span(spans, span) ==
    IF span.start < span.end THEN [spans EXCEPT !.type_spans = Append(@, span)] ELSE spans

add_value_span(spans, span) ==
    IF span.start < span.end THEN [spans EXCEPT !.value_spans = Append(@, span)] ELSE spans

add_definition_span(spans, span) ==
    IF span.start < span.end THEN [spans EXCEPT !.definition_spans = Append(@, span)]
    ELSE spans

\* `if let Some(span) = option { add(span) }`
add_some(spans, option, kind) ==
    IF IsNone(option) THEN spans
    ELSE CASE kind = "type" -> add_type_span(spans, Unwrap(option))
           [] kind = "value" -> add_value_span(spans, Unwrap(option))
           [] OTHER -> add_definition_span(spans, Unwrap(option))

\* One loop of collect_from_semantic over the items from index i on; an
\* item gives the span options first and second to the lists of the kinds
\* named.
RECURSIVE collect_loop(_, _, _, _, _)
collect_loop(spans, items, i, first_kind, second_kind) ==
    IF i > Len(items) THEN spans
    ELSE LET next(added) ==
                 After(added, collect_loop(added, items, i + 1, first_kind, second_kind))
         IN next(add_some(add_some(spans, items[i].first, first_kind),
                          items[i].second, second_kind))

collect_from_semantic(spans, semantic) ==
    LET with_actor(keywords) ==
            IF IsNone(semantic.actor) THEN keywords
            ELSE LET actor == Unwrap(semantic.actor)
                     typed == add_type_span(keywords, actor.span)
                 IN add_some(add_some(typed, actor.name_span, "definition"),
                             actor.name_span, "value")
        with_keywords(primitives) ==
            After(primitives, with_actor(collect_loop(primitives,
                     [i \in DOMAIN semantic.keyword_spans |->
                        [first |-> Some(semantic.keyword_spans[i].span), second |-> None]],
                     1, "type", "type")))
        with_primitives(locals) ==
            After(locals, with_keywords(collect_loop(locals,
                     [i \in DOMAIN semantic.primitive_spans |->
                        [first |-> Some(semantic.primitive_spans[i].span), second |-> None]],
                     1, "type", "type")))
        with_locals(imports) ==
            After(imports, with_primitives(collect_loop(imports,
                     [i \in DOMAIN semantic.locals |->
                        [first |-> IF semantic.locals[i].is_definition
                                   THEN Some(semantic.locals[i].span) ELSE None,
                         second |-> None]],
                     1, "definition", "definition")))
        with_imports(references) ==
            After(references, with_locals(collect_loop(references,
                     [i \in DOMAIN semantic.table.imports |->
                        [first |-> Some(semantic.table.imports[i].span), second |-> None]],
                     1, "definition", "definition")))
        with_references(idents) ==
            After(idents, with_imports(collect_loop(idents,
                     [i \in DOMAIN semantic.table.reference_id_to_reference |->
                        [first |-> Some(semantic.table.reference_id_to_reference[i].span),
                         second |-> None]],
                     1, "type", "type")))
        with_idents(params) ==
            After(params, with_references(collect_loop(params,
                     [i \in DOMAIN semantic.symbol_ident_spans |->
                        [first |-> semantic.symbol_ident_spans[i], second |-> None]],
                     1, "definition", "definition")))
        with_params(methods) ==
            After(methods, with_idents(collect_loop(methods,
                     [i \in DOMAIN semantic.params |->
                        [first |-> Some(semantic.params[i].type_span),
                         second |-> semantic.params[i].name_span]],
                     1, "type", "value")))
        with_methods(fields) ==
            After(fields, with_params(collect_loop(fields,
                     [i \in DOMAIN semantic.service_methods |->
                        [first |-> semantic.service_methods[i].type_span,
                         second |-> semantic.service_methods[i].name_span]],
                     1, "type", "value")))
    IN with_methods(collect_loop(spans,
                     [i \in DOMAIN semantic.fields |->
                        [first |-> semantic.fields[i].type_span,
                         second |-> semantic.fields[i].label_span]],
                     1, "type", "value"))

RECURSIVE collect_type_from(_, _, _)
RECURSIVE collect_types_from(_, _, _)
RECURSIVE collect_fields_from(_, _, _)
RECURSIVE collect_bindings_from(_, _, _)

\* collect_type_from; rope is an Option.
collect_type_from(spans, idl_type, rope) ==
    LET results(args) ==
            After(args,
                  IF idl_type.kind = "FuncT"
                  THEN collect_types_from(args, idl_type.rets, rope)
                  ELSE collect_type_from(args, idl_type.ret, rope))
        inner(own) ==
            After(own,
              CASE idl_type.kind \in {"OptT", "VecT"} ->
                     collect_type_from(own, idl_type.inner, rope)
                [] idl_type.kind \in {"RecordT", "VariantT"} ->
                     collect_fields_from(own, idl_type.fields, rope)
                [] idl_type.kind = "ServT" ->
                     collect_bindings_from(own, idl_type.bindings, rope)
                [] idl_type.kind \in {"FuncT", "ClassT"} ->
                     results(collect_types_from(own, idl_type.args, rope))
                [] OTHER -> own)
    IN inner(add_type_span(spans, idl_type.span))

collect_types_from(spans, types, rope) ==
    IF types = <<>> THEN spans
    ELSE LET next(added) == After(added, collect_types_from(added, Tail(types), rope))
         IN next(collect_type_from(spans, Head(types), rope))

collect_fields_from(spans, fields, rope) ==
    IF fields = <<>> THEN spans
    ELSE LET label == IF IsSome(rope)
                      THEN compute_field_label_span(Head(fields), Unwrap(rope)) ELSE None
             next(added) == After(added, collect_fields_from(added, Tail(fields), rope))
         IN next(collect_type_from(add_some(spans, label, "value"),
                                   Head(fields).typ, rope))

collect_bindings_from(spans, bindings, rope) ==
    IF bindings = <<>> THEN spans
    ELSE LET ident == IF IsSome(rope)
                      THEN compute_binding_ident_span(Head(bindings), Unwrap(rope))
                      ELSE None
             next(added) ==
                 After(added, collect_bindings_from(added, Tail(bindings), rope))
         IN next(collect_type_from(add_some(spans, ident, "value"),
                                   Head(bindings).typ, rope))

RECURSIVE collect_from_decs(_, _, _)
collect_from_decs(spans, decs, rope) ==
    IF decs = <<>> THEN spans
    ELSE LET dec == Head(decs)
             ident == IF dec.dec = "TypD" /\ IsSome(rope)
                      THEN compute_binding_ident_span(dec.binding, Unwrap(rope)) ELSE None
             next(added) == After(added, collect_from_decs(added, Tail(decs), rope))
         IN next(IF dec.dec = "TypD"
                 THEN collect_type_from(add_some(spans, ident, "definition"),
                                        dec.binding.typ, rope)
                 ELSE add_definition_span(spans, dec.span))

collect_from_ast(spans, ast, rope) ==
    LET with_actor(decs) ==
            IF IsNone(ast.actor) THEN decs
            ELSE After(decs,
                       add_type_span(collect_type_from(decs, Unwrap(ast.actor).typ, rope),
                                     Unwrap(ast.actor).span))
    IN with_actor(collect_from_decs(spans, ast.decs, rope))

ContextSpans_is_empty(spans) ==
    spans.type_spans = <<>> /\ spans.value_spans = <<>> /\ spans.definition_spans = <<>>

ContextSpans_non_empty(spans) ==
    IF ContextSpans_is_empty(spans) THEN None ELSE Some(spans)

\* ContextSpans::from_sources, the part after the semantic model's spans.
from_sources_ast(from_semantic, ast, rope) ==
    After(from_semantic,
          ContextSpans_non_empty(
              IF IsSome(ast) THEN collect_from_ast(from_semantic, Unwrap(ast), rope)
              ELSE from_semantic))

\* ContextSpans::from_sources; ast, semantic and rope are Options.
from_sources(ast, semantic, rope) ==
    from_sources_ast(IF IsSome(semantic)
                     THEN collect_from_semantic(ContextSpansDefault, Unwrap(semantic))
                     ELSE ContextSpansDefault,
                     ast, rope)

span_contains(span, offset) == span.start <= offset /\ offset < span.end

spans_contain(spans, offset) ==
    \E i \in DOMAIN spans : span_contains(spans[i], offset)

\* classify that asks the value spans before the definition spans.
classify_value_first(spans, offset) ==
    IF spans_contain(spans.value_spans, offset) THEN "Value"
    ELSE IF spans_contain(spans.definition_spans, offset) THEN "Definition"
    ELSE IF spans_contain(spans.type_spans, offset) THEN "Type"
    ELSE "Unknown"

\* ContextSpans::classify
classify(spans, offset) ==
    IF spans_contain(spans.definition_spans, offset) THEN "Definition"
    ELSE IF spans_contain(spans.value_spans, offset) THEN "Value"
    ELSE IF spans_contain(spans.type_spans, offset) THEN "Type"
    ELSE "Unknown"

\* OnceCell::get_or_init on an empty spans cell.
spans_get_or_init(cache, built) ==
    [cache |-> [cache EXCEPT !.spans = Some(built)], spans |-> built, computed |-> 1]

\* CompletionDocumentCache::spans: [cache, spans, computed]; cache is the
\* cache after the call (its OnceCell may have been filled), spans the
\* Option returned, computed the number of runs of from_sources.
CompletionDocumentCache_spans(cache, version, ast, semantic, rope) ==
    IF ~cache.has_ast /\ ~cache.has_semantic
    THEN [cache |-> cache, spans |-> None, computed |-> 0]
    ELSE IF ~is_fresh(cache.version, version)
    THEN [cache |-> cache, spans |-> None, computed |-> 0]
    ELSE IF IsSome(cache.spans)
    THEN [cache |-> cache, spans |-> Unwrap(cache.spans), computed |-> 0]
    ELSE spans_get_or_init(cache, from_sources(ast, semantic, rope))

\* semantic.locals grouped by scope: the scopes in (start, end) order.
ScopeBindingIndex_from_semantic(semantic) ==
    IF semantic.locals = <<>> THEN None
    ELSE LET keys == {semantic.locals[i].scope : i \in DOMAIN semantic.locals}
         IN Some([scope \in keys |->
                    SelectSeq(semantic.locals, LAMBDA local : local.scope = scope)])

\* CompletionDocumentCache::scope_index: [cache, scope_index, computed].
CompletionDocumentCache_scope_index(cache, semantic, version) ==
    IF ~cache.has_semantic
    THEN [cache |-> cache, scope_index |-> None, computed |-> 0]
    ELSE IF ~is_fresh(cache.version, version)
    THEN [cache |-> cache, scope_index |-> None, computed |-> 0]
    ELSE IF IsSome(cache.scope_index)
    THEN [cache |-> cache, scope_index |-> Unwrap(cache.scope_index), computed |-> 0]
    ELSE LET built == IF IsSome(semantic)
                      THEN ScopeBindingIndex_from_semantic(Unwrap(semantic)) ELSE None
         IN [cache |-> [cache EXCEPT !.scope_index = Some(built)],
             scope_index |-> built, computed |-> 1]

HeuristicWins == {"Value", "TopLevel", "Definition", "Comment"}

\* determine_context that lets the spans decide before the heuristic.
determine_context_spans_first(offset, cached, semantic, ast, rope, cursor_context, version) ==
    IF IsNone(offset) THEN [context |-> "Unknown", cached |-> cached, computed |-> 0]
    ELSE LET cursor == IF IsSome(cursor_context) THEN Unwrap(cursor_context)
                       ELSE CursorContext_new(rope, Unwrap(offset))
             heuristic == heuristic_context_from_cursor(cursor)
             fresh_spans == from_sources(ast, semantic, Some(rope))
             by_spans == IF IsSome(fresh_spans)
                         THEN classify(Unwrap(fresh_spans), Unwrap(offset)) ELSE "Unknown"
         IN [context |-> IF by_spans # "Unknown" THEN by_spans ELSE heuristic,
             cached |-> cached, computed |-> 1]

\* determine_context, the class the spans give the offset.
classified_at(spans, offset) ==
    IF IsSome(spans) THEN classify(Unwrap(spans), Unwrap(offset)) ELSE "Unknown"

\* determine_context, the answer once from_sources has run again.
determine_by_sources(heuristic, looked, after, by_spans) ==
    [context |-> IF by_spans # "Unknown" THEN by_spans ELSE heuristic,
     cached |-> after, computed |-> looked.computed + 1]

\* determine_context, from the spans of the cache on: by_cache is the class
\* they give, looked the answer of CompletionDocumentCache::spans, after the
\* cache it left.
determine_by_cached(offset, semantic, ast, rope, heuristic, looked, after, by_cache) ==
    IF by_cache # "Unknown"
    THEN [context |-> by_cache, cached |-> after, computed |-> looked.computed]
    ELSE determine_by_sources(heuristic, looked, after,
             classified_at(from_sources(ast, semantic, Some(rope)), offset))

determine_by_spans(offset, cached, semantic, ast, rope, heuristic, looked) ==
    determine_by_cached(offset, semantic, ast, rope, heuristic, looked,
                        IF IsSome(cached) THEN Some(looked.cache) ELSE None,
                        classified_at(looked.spans, offset))

determine_by_heuristic(offset, cached, semantic, ast, rope, version, heuristic) ==
    IF heuristic \in HeuristicWins
    THEN [context |-> heuristic, cached |-> cached, computed |-> 0]
    ELSE determine_by_spans(offset, cached, semantic, ast, rope, heuristic,
             IF IsSome(cached)
             THEN CompletionDocumentCache_spans(Unwrap(cached), version,
                      ast, semantic, Some(rope))
             ELSE [cache |-> None, spans |-> None, computed |-> 0])

\* determine_context: [context, cached, computed]; cached is the cache
\* after the call, computed the number of runs of from_sources.
determine_context(offset, cached, semantic, ast, rope, cursor_context, version) ==
    IF IsNone(offset) THEN [context |-> "Unknown", cached |-> cached, computed |-> 0]
    ELSE determine_by_heuristic(offset, cached, semantic, ast, rope, version,
             heuristic_context_from_cursor(
                 IF IsSome(cursor_context) THEN Unwrap(cursor_context)
                 ELSE CursorContext_new(rope, Unwrap(offset))))

(***************************************************************************)
(* Idle values of the state, shared by every specification.                *)
(***************************************************************************)
Docs == {"a.did", "b.did"}

AnIdle ==
    [prog |-> [decs |-> <<>>, actor |-> None], phase |-> "idle", i |-> 0,
     ctx |-> CtxNew(<<>>), result |-> [semantic |-> None, err |-> None],
     stored |-> [snapshot |-> None, diagnostics |-> <<>>]]

FreshIdle == [cache_version |-> None, version |-> None, calls |-> 0, result |-> TRUE]

AnalyzeIdle == an = AnIdle

EvalIdle == [fn |-> "none"]

LruIdle ==
    [next |-> 0, clock |-> 0, stamp |-> <<>>, lookups |-> 0, invalidations |-> 0,
     last |-> "new", key |-> 0, before |-> {}, oldest |-> {}, spilled |-> {}]

ServerIdle ==
    /\ documents = [d \in Docs |-> None]
    /\ analysis_map = [d \in Docs |-> None]
    /\ task_states = [d \in Docs |-> None]
    /\ task_heap = <<>>
    /\ tasks = <<>>
    /\ published = [d \in Docs |-> None]
    /\ blocked = FALSE
    /\ text_epoch = [d \in Docs |-> 0]
    /\ origin = EmptyMap

(***************************************************************************)
(* SpecAnalyze: one run of analyze_program on a sample program, statement  *)
(* by statement, followed by on_change's use of the result.                *)
(***************************************************************************)
MaxDecs == 2

SeqsUpTo(S, n) == UNION {[1..k -> S] : k \in 1..n}

AnalyzePrograms ==
    {[decs |-> decs, actor |-> actor] :
        decs \in SeqsUpTo(DecChoices, MaxDecs),
        actor \in {None, Some("A"), Some("C")}}

AnAst == ProgAst(an.prog)

InitAnalyze ==
    /\ ServerIdle
    /\ eval = EvalIdle
    /\ hover_offset_cache = <<>>
    /\ lru = LruIdle
    /\ fresh = FreshIdle
    /\ \E prog \in AnalyzePrograms :
          an = [AnIdle EXCEPT !.prog = prog, !.phase = "hoist", !.i = 1,
                               !.ctx = CtxNew(ProgText(prog))]

AnUnchanged == UNCHANGED <<serverVars, hover_offset_cache, lru, fresh, eval>>

\* analyze_program, first loop: one iteration.
AnHoist ==
    /\ an.phase = "hoist"
    /\ an' = [an EXCEPT !.ctx = hoist_dec(AnAst.decs[an.i], an.ctx),
                        !.i = IF an.i = Len(AnAst.decs) THEN 1 ELSE an.i + 1,
                        !.phase = IF an.i = Len(AnAst.decs) THEN "body" ELSE "hoist"]
    /\ AnUnchanged

\* analyze_program, second loop: one iteration; an error returns at once.
AnBody ==
    /\ an.phase = "body"
    /\ LET last == an.i = Len(AnAst.decs)
           body(ctx) ==
               an' = [an EXCEPT !.ctx = ctx,
                                !.i = IF last THEN an.i ELSE an.i + 1,
                                !.phase = IF IsSome(ctx.err) THEN "return"
                                          ELSE IF ~last THEN "body"
                                          ELSE IF IsSome(AnAst.actor) THEN "actor"
                                          ELSE "return"]
       IN body(analyze_dec(AnAst.decs[an.i], an.ctx))
    /\ AnUnchanged

\* analyze_program: the actor.
AnActor ==
    /\ an.phase = "actor"
    /\ an' = [an EXCEPT !.ctx = analyze_actor(Unwrap(AnAst.actor), an.ctx),
                        !.phase = "return"]
    /\ AnUnchanged

\* analyze_program returns.
AnReturn ==
    /\ an.phase = "return"
    /\ an' = [an EXCEPT !.result = analyze_result(an.ctx), !.phase = "on_change"]
    /\ AnUnchanged

\* on_change on the program's text: the snapshot and the diagnostics.
AnOnChange ==
    /\ an.phase = "on_change"
    /\ an' = [an EXCEPT !.stored = on_change_analysis(ProgText(an.prog), Some(1)),
                        !.phase = "done"]
    /\ AnUnchanged

NextAnalyze == AnHoist \/ AnBody \/ AnActor \/ AnReturn \/ AnOnChange

SpecAnalyze == InitAnalyze /\ [][NextAnalyze]_vars

\* The statement-by-statement run returns what analyze_program returns.
AnStepwiseAgrees ==
    an.phase \in {"on_change", "done"} => an.result = analyze_program(AnAst, ProgText(an.prog))

\* The parser inverts the layout of the sample programs.
AnParseInverts ==
    an.phase # "idle" =>
        parse(ProgText(an.prog)) = [ast |-> Some(AnAst), parse_errors |-> <<>>]


(***************************************************************************)
(* Properties of the analysis pass.                                        *)
(***************************************************************************)
\* The variable references of a sample program in source order, read off
\* the layout: [name, start, dec] (dec = 0 for the actor).
ShapeRefs(sh, base, i) ==
    CASE sh.k = 1 -> <<>>
      [] sh.k = 2 -> <<[name |-> sh.n, start |-> base + 7, dec |-> i]>>
      [] sh.k = 3 -> <<[name |-> sh.n, start |-> base + 11, dec |-> i]>>
      [] sh.k = 4 -> <<[name |-> sh.n, start |-> base + 16, dec |-> i],
                       [name |-> sh.m, start |-> base + 20, dec |-> i]>>
      [] OTHER -> <<[name |-> sh.n, start |-> base + 12, dec |-> i],
                    [name |-> sh.m, start |-> base + 17, dec |-> i]>>

RECURSIVE DecRefs(_, _)
DecRefs(p, i) ==
    IF i > Len(p.decs) THEN <<>>
    ELSE (IF p.decs[i].dec = "TypD"
          THEN ShapeRefs(p.decs[i].shape, (i - 1) * DecStride, i) ELSE <<>>)
         \o DecRefs(p, i + 1)

VarRefs(p) ==
    DecRefs(p, 1)
    \o (IF IsSome(p.actor)
        THEN <<[name |-> Unwrap(p.actor), start |-> Len(p.decs) * DecStride + 12,
                dec |-> 0]>>
        ELSE <<>>)

\* The declarations of p that bind name, by index.
Declaring(p, name) ==
    {i \in 1..Len(p.decs) : p.decs[i].dec = "TypD" /\ p.decs[i].id = name}

Undefined(p) ==
    {k \in 1..Len(VarRefs(p)) : Declaring(p, VarRefs(p)[k].name) = {}}

FirstUndefined(p) ==
    VarRefs(p)[CHOOSE k \in Undefined(p) : \A j \in Undefined(p) : k <= j]

\* The position of an offset in a text laid out in lines of DecStride.
LayoutPosition(offset) == Position(offset \div DecStride, offset % DecStride)

TableIntegrity(table) ==
    LET valid == 0..(Len(table.symbol_id_to_span) - 1)
    IN /\ DOMAIN table.symbol_id_to_references \subseteq valid
       /\ \A r \in 1..Len(table.reference_id_to_reference) :
             LET owner == table.reference_id_to_reference[r].symbol_id
             IN IsSome(owner) => Unwrap(owner) \in valid

\* C8: at every step of the analysis pass, in the Semantic it returns and in
\* the snapshot on_change builds from it, every SymbolId that is a key of
\* symbol_id_to_references and every owning symbol id stored in a reference
\* is a valid index of symbol_id_to_span.
C8_ReferentialIntegrity ==
    /\ TableIntegrity(an.ctx.table)
    /\ IsSome(an.result.semantic) => TableIntegrity(Unwrap(an.result.semantic).table)
    /\ (IsSome(an.stored.snapshot) /\ IsSome(Unwrap(an.stored.snapshot).semantic))
          => TableIntegrity(Unwrap(Unwrap(an.stored.snapshot).semantic).table)

\* A finished pass whose table holds references owned by the last symbol.
C8_Witness ==
    /\ an.phase = "done"
    /\ IsSome(an.result.semantic)
    /\ LET table == Unwrap(an.result.semantic).table
       IN /\ Len(table.symbol_id_to_span) = 2
          /\ 1 \in DOMAIN table.symbol_id_to_references
          /\ Len(table.reference_id_to_reference) >= 2

\* C9: analyze_program returns either a Semantic and no error, or an error
\* and no Semantic.  It returns an error exactly when some variable
\* reference names no declared binding, the error is UndefinedVariable with
\* the name and span of the first such reference in source order, and the
\* pass stops there.  on_change then stores a snapshot with the syntax tree
\* and without Semantic, and its diagnostics are exactly one diagnostic, at
\* the range of that span.
C9_AnalysisAllOrNothing ==
    LET p == an.prog
        bad == Undefined(p) # {}
        first == FirstUndefined(p)
        span == Span(first.start, first.start + 1)
    IN /\ IsSome(an.ctx.err) => an.phase \in {"return", "on_change", "done"}
       /\ an.phase \in {"on_change", "done"} =>
             /\ IsSome(an.result.semantic) # IsSome(an.result.err)
             /\ IsSome(an.result.err) = bad
             /\ bad => an.result.err = Some(UndefinedVariable(first.name, span))
             /\ ~bad => an.result.semantic = Some(SemanticOf(an.ctx))
       /\ an.phase = "done" =>
             /\ IsSome(an.stored.snapshot)
             /\ Unwrap(an.stored.snapshot).ast = Some(AnAst)
             /\ IsSome(Unwrap(an.stored.snapshot).semantic) = ~bad
             /\ bad => an.stored.diagnostics =
                         <<Diagnostic(Range(LayoutPosition(span.start),
                                            LayoutPosition(span.end)), "")>>
             /\ ~bad => an.stored.diagnostics = <<>>

\* A pass that failed on a reference that is not the program's first one,
\* after on_change used its result.
C9_Witness ==
    /\ an.phase = "done"
    /\ IsSome(an.result.err)
    /\ Len(an.ctx.table.reference_id_to_reference) >= 1
    /\ Len(an.stored.diagnostics) = 1
    /\ Cardinality(Undefined(an.prog)) >= 2

\* C10: when every name a program refers to is bound by a top-level type
\* declaration, the pass succeeds and every reference is recorded as a
\* reference to the symbol of the (last) declaration of its name, whether
\* that declaration stands before or after the reference.
C10_Hoisting ==
    /\ an.phase \in {"body", "actor"} =>
          Len(an.ctx.table.symbol_id_to_span) = Len(an.prog.decs)
    /\ (an.phase \in {"on_change", "done"} /\ Undefined(an.prog) = {}) =>
        /\ IsSome(an.result.semantic)
        /\ LET table == Unwrap(an.result.semantic).table
               refs == VarRefs(an.prog)
           IN \A k \in 1..Len(refs) :
                LET span == Span(refs[k].start, refs[k].start + 1)
                    decl == CHOOSE i \in Declaring(an.prog, refs[k].name) :
                               \A j \in Declaring(an.prog, refs[k].name) : j <= i
                IN /\ span \in DOMAIN table.span_to_reference_id
                   /\ table.reference_id_to_reference[table.span_to_reference_id[span] + 1]
                         = [span |-> span, symbol_id |-> Some(decl - 1)]
                   /\ table.symbol_id_to_span[decl] = AnAst.decs[decl].binding.span

\* A successful pass with a reference that precedes the declaration of its
\* name and one that follows it.
C10_Witness ==
    /\ an.phase = "done"
    /\ IsSome(an.result.semantic)
    /\ \E k \in 1..Len(VarRefs(an.prog)) :
          /\ VarRefs(an.prog)[k].dec = 1
          /\ Declaring(an.prog, VarRefs(an.prog)[k].name) = {2}
    /\ \E k \in 1..Len(VarRefs(an.prog)) :
          /\ VarRefs(an.prog)[k].dec = 2
          /\ Declaring(an.prog, VarRefs(an.prog)[k].name) = {1}


(***************************************************************************)
(* SpecFresh: a completion cache is built at some version (or none) and    *)
(* asked whether it is fresh for a request's version (or none).            *)
(***************************************************************************)
MaxFreshVersion == 8

FreshVersions == {None} \cup {Some(v) : v \in 0..MaxFreshVersion}

\* CompletionDocumentCache::build stamps the cache.
FreshBuild ==
    /\ \E version \in FreshVersions :
          fresh' = [FreshIdle EXCEPT !.cache_version =
                        Unwrap(CompletionDocumentCache_build(TRUE, TRUE, version)).version]
    /\ UNCHANGED <<serverVars, hover_offset_cache, lru, an, eval>>

\* cache.is_fresh(version)
FreshQuery ==
    /\ \E version \in FreshVersions :
          fresh' = [fresh EXCEPT !.version = version,
                                 !.calls = 1,
                                 !.result = is_fresh(fresh.cache_version, version)]
    /\ UNCHANGED <<serverVars, hover_offset_cache, lru, an, eval>>

InitFresh ==
    /\ ServerIdle
    /\ eval = EvalIdle
    /\ hover_offset_cache = <<>>
    /\ lru = LruIdle
    /\ AnalyzeIdle
    /\ fresh = FreshIdle

NextFresh == FreshBuild \/ FreshQuery

SpecFresh == InitFresh /\ [][NextFresh]_vars

\* C4: is_fresh answers true exactly when the cache carries no version or
\* the request carries the cache's version; in particular a cache built at
\* V is fresh for a request at V and stale for a request at another version
\* and for a request with no version.
C4_IsFresh ==
    fresh.calls >= 1 =>
        fresh.result = (IsNone(fresh.cache_version) \/ fresh.version = fresh.cache_version)

\* A versioned cache asked about another version, found stale.
C4_Witness ==
    /\ fresh.calls >= 1
    /\ IsSome(fresh.cache_version) /\ IsSome(fresh.version)
    /\ fresh.version # fresh.cache_version
    /\ ~fresh.result

\* C5 as stated: a cache stamped with V is fresh for a request with no
\* version and for a request with version V, and stale otherwise.
C5_FreshWithoutRequestVersion ==
    (fresh.calls >= 1 /\ IsSome(fresh.cache_version)) =>
        fresh.result = (IsNone(fresh.version) \/ fresh.version = fresh.cache_version)

\* C5, amended: a cache stamped with V is fresh only for a request with
\* version V; it is stale for a request with no version and for a request
\* with another version.  A cache with no version is fresh for every request.
C5_FreshOnlyForSameVersion ==
    fresh.calls >= 1 =>
        /\ IsSome(fresh.cache_version) =>
              (fresh.result <=> (IsSome(fresh.version)
                                 /\ Unwrap(fresh.version) = Unwrap(fresh.cache_version)))
        /\ IsNone(fresh.cache_version) => fresh.result

\* A versioned cache asked by a request with no version, found stale.
C5_Witness ==
    /\ fresh.calls >= 1
    /\ IsSome(fresh.cache_version) /\ IsNone(fresh.version)
    /\ ~fresh.result


(***************************************************************************)
(* SpecCache: the position-to-offset cache under inserts of up to          *)
(* MaxCacheKeys new keys, with up to MaxCacheOps lookups and invalidations *)
(* anywhere in between.  Key n is (KeyUri(n), version 1, line n,        *)
(* column 0).  lru is the history: stamp[n + 1] is the time of the last    *)
(* access (insert or hit) of key n.                                        *)
(***************************************************************************)
MaxCacheKeys == 70
MaxCacheOps == 1

KeyUri(n) == IF n % 16 = 15 THEN "b.did" ELSE "a.did"
KeyPosition(n) == Position(n, 0)
KeyVersion == Some(1)

CacheKeys(entries) == {entries[i].line : i \in 1..Len(entries)}

\* The least recently accessed of the keys in the cache, as a set.
Oldest(entries, stamp) ==
    {k \in CacheKeys(entries) : \A j \in CacheKeys(entries) : stamp[k + 1] <= stamp[j + 1]}

LruTouch(last, key, stamp) ==
    [lru EXCEPT !.clock = @ + 1, !.last = last, !.key = key, !.stamp = stamp,
                !.before = CacheKeys(hover_offset_cache),
                !.oldest = Oldest(hover_offset_cache, lru.stamp)]

\* cache.insert of a key never inserted before.
CacheInsert ==
    /\ lru.next < MaxCacheKeys
    /\ LET n == lru.next
           full == Len(hover_offset_cache) >= HoverCacheCapacity
       IN /\ hover_offset_cache' =
                cache_insert(hover_offset_cache, KeyUri(n), KeyVersion, KeyPosition(n), n)
          /\ lru' = [LruTouch(IF full THEN "evict" ELSE "insert", n,
                              Append(lru.stamp, lru.clock + 1))
                        EXCEPT !.next = n + 1,
                               !.spilled = IF full /\ lru.spilled = {}
                                           THEN Oldest(hover_offset_cache, lru.stamp)
                                           ELSE lru.spilled]
    /\ UNCHANGED <<serverVars, fresh, an, eval>>

\* cache.lookup of the front key, of the key behind it, or of a key that was
\* never inserted.
CacheLookup ==
    /\ lru.lookups + lru.invalidations < MaxCacheOps
    /\ \E n \in {hover_offset_cache[i].line : i \in 1..Min(2, Len(hover_offset_cache))}
                \cup {MaxCacheKeys} :
          LET found == cache_lookup(hover_offset_cache, KeyUri(n), KeyVersion,
                                    KeyPosition(n))
              hit == IsSome(found.result)
          IN /\ hover_offset_cache' = found.cache
             /\ lru' = [LruTouch(IF hit THEN "hit" ELSE "miss", n,
                                 IF hit THEN [lru.stamp EXCEPT ![n + 1] = lru.clock + 1]
                                 ELSE lru.stamp)
                           EXCEPT !.lookups = @ + 1]
    /\ UNCHANGED <<serverVars, fresh, an, eval>>

\* cache.invalidate_uri
CacheInvalidate ==
    /\ lru.lookups + lru.invalidations < MaxCacheOps
    /\ \E uri \in Docs :
          /\ hover_offset_cache' = invalidate_uri(hover_offset_cache, uri)
          /\ lru' = [LruTouch("invalidate", 0, lru.stamp) EXCEPT !.invalidations = @ + 1]
    /\ UNCHANGED <<serverVars, fresh, an, eval>>

InitCache ==
    /\ ServerIdle
    /\ eval = EvalIdle
    /\ hover_offset_cache = <<>>
    /\ lru = LruIdle
    /\ fresh = FreshIdle
    /\ AnalyzeIdle

NextCache == CacheInsert \/ CacheLookup \/ CacheInvalidate

SpecCache == InitCache /\ [][NextCache]_vars

\* C6: the cache never holds more than 64 entries; after a lookup hit the
\* looked-up entry is the most recently used (the last) one and the cache
\* holds the same keys; an insert into a full cache removes exactly the
\* least recently accessed key and adds the new one; and once 65 distinct
\* keys have been inserted with no invalidation, the key that was the least
\* recently accessed of the first 64 is gone and the other 64 are present.
C6_BoundedLru ==
    LET entries == hover_offset_cache
        keys == CacheKeys(entries)
    IN /\ Len(entries) <= 64
       /\ lru.last = "hit" =>
             /\ entries[Len(entries)].line = lru.key
             /\ keys = lru.before
       /\ lru.last = "evict" =>
             /\ Cardinality(lru.oldest) = 1
             /\ keys = (lru.before \ lru.oldest) \cup {lru.key}
             /\ Len(entries) = 64
       /\ lru.last = "insert" => keys = lru.before \cup {lru.key}
       /\ (lru.next = 65 /\ lru.invalidations = 0) =>
             /\ Cardinality(lru.spilled) = 1
             /\ lru.spilled \subseteq 0..63
             /\ keys = (0..64) \ lru.spilled

\* 65 keys were inserted, the first of them was looked up on the way, and so
\* the second one is the key that is gone.
C6_Witness ==
    /\ lru.next = 65
    /\ lru.invalidations = 0
    /\ lru.lookups = 1
    /\ lru.spilled = {1}
    /\ 0 \in CacheKeys(hover_offset_cache)
    /\ Len(hover_offset_cache) = 64


(***************************************************************************)
(* Spec: the server.  A client sends up to MaxTasks messages; each becomes *)
(* a handler future in tasks, and the futures advance one await-to-await   *)
(* segment at a time, in any order.                                        *)
(***************************************************************************)
MaxTasks == 3

Text_forward ==
    ProgText([decs |-> <<[dec |-> "TypD", id |-> "A",
                          shape |-> [k |-> 2, n |-> "B", m |-> "A"]],
                         [dec |-> "TypD", id |-> "B",
                          shape |-> [k |-> 1, n |-> "A", m |-> "A"]]>>,
              actor |-> None])

Text_undefined ==
    ProgText([decs |-> <<[dec |-> "TypD", id |-> "A",
                          shape |-> [k |-> 2, n |-> "C", m |-> "A"]]>>,
              actor |-> None])

Text_broken == Chars_type \o <<"A", "=">>

OpenTexts == {Text_forward, Text_broken}

\* TextDocumentContentChangeEvent
ContentChange(range, text) == [range |-> range, text |-> text]

ChangeLists ==
    {<<ContentChange(None, Text_undefined)>>,
     <<ContentChange(Some(Range(Position(0, 7), Position(0, 8))), <<"A">>)>>}

SaveTexts == {Text_forward}

QueryPositions == {Position(0, 7)}
CompletionPositions == {Position(0, 0), Position(0, 6)}

\* The documents the client works on.
EditDocs == {"a.did"}

NoObservation == [rope |-> None, version |-> None, semantic |-> None, ast |-> None,
                  offset |-> None]

TaskDefault ==
    [op |-> "", uri |-> "", pc |-> "done", version |-> None, rope |-> <<>>,
     changes |-> <<>>, position |-> Position(0, 0), context |-> "",
     early |-> FALSE, token |-> NoToken, guard |-> FALSE, seen |-> 0,
     outcome |-> "", observed |-> NoObservation, diagnostics |-> <<>>]

\* The version the client stamps its next did_open or did_change with.
NextVersion(uri) ==
    1 + Cardinality({i \in 1..Len(tasks) :
                        tasks[i].uri = uri /\ tasks[i].op \in {"did_open", "did_change"}})

\* The client keeps to the protocol: it opens a document before it sends
\* anything else about it, and does not open an open document again.
IsOpen(uri) ==
    \E i \in 1..Len(tasks) :
        /\ tasks[i].op = "did_open" /\ tasks[i].uri = uri
        /\ \A j \in (i + 1)..Len(tasks) :
              ~(tasks[j].op = "did_close" /\ tasks[j].uri = uri)

CanArrive == ~blocked /\ Len(tasks) < MaxTasks

ArrivalFrame ==
    UNCHANGED <<documents, analysis_map, task_states, task_heap, hover_offset_cache,
                published, blocked, text_epoch, origin, lru, fresh, an, eval>>

\* did_open up to on_change's first await.
DidOpenArrives ==
    \E uri \in EditDocs : \E text \in OpenTexts :
        /\ CanArrive
        /\ ~IsOpen(uri)
        /\ tasks' = Append(tasks,
                [TaskDefault EXCEPT !.op = "did_open", !.uri = uri, !.rope = text,
                                    !.version = Some(NextVersion(uri)),
                                    !.pc = "on_change"])
        /\ ArrivalFrame

\* did_change up to its first await.
DidChangeArrives ==
    \E uri \in EditDocs : \E changes \in ChangeLists :
        /\ CanArrive
        /\ IsOpen(uri)
        /\ tasks' = Append(tasks,
                [TaskDefault EXCEPT !.op = "did_change", !.uri = uri,
                                    !.changes = changes,
                                    !.version = Some(NextVersion(uri)),
                                    !.pc = "did_change"])
        /\ ArrivalFrame

\* did_save with the text included: on_change without version.
DidSaveArrives ==
    \E uri \in EditDocs : \E text \in SaveTexts :
        /\ CanArrive
        /\ IsOpen(uri)
        /\ tasks' = Append(tasks,
                [TaskDefault EXCEPT !.op = "did_save", !.uri = uri, !.rope = text,
                                    !.pc = "on_change"])
        /\ ArrivalFrame

DidCloseArrives ==
    \E uri \in EditDocs :
        /\ CanArrive
        /\ IsOpen(uri)
        /\ tasks' = Append(tasks,
                [TaskDefault EXCEPT !.op = "did_close", !.uri = uri, !.pc = "did_close"])
        /\ ArrivalFrame

HoverArrives ==
    \E uri \in EditDocs : \E position \in QueryPositions :
        /\ CanArrive
        /\ IsOpen(uri)
        /\ tasks' = Append(tasks,
                [TaskDefault EXCEPT !.op = "hover", !.uri = uri,
                                    !.position = position, !.pc = "hover"])
        /\ ArrivalFrame

GotoDefinitionArrives ==
    \E uri \in EditDocs : \E position \in QueryPositions :
        /\ CanArrive
        /\ IsOpen(uri)
        /\ tasks' = Append(tasks,
                [TaskDefault EXCEPT !.op = "goto_definition", !.uri = uri,
                                    !.position = position, !.pc = "goto_definition"])
        /\ ArrivalFrame

CompletionArrives ==
    \E uri \in EditDocs : \E position \in CompletionPositions :
        /\ CanArrive
        /\ IsOpen(uri)
        /\ tasks' = Append(tasks,
                [TaskDefault EXCEPT !.op = "completion", !.uri = uri,
                                    !.position = position, !.pc = "completion"])
        /\ ArrivalFrame


Entries(cache) == {cache[i] : i \in 1..Len(cache)}

\* History: entries new in cache were computed in their document's current epoch.
OriginOf(cache) ==
    [e \in Entries(cache) |->
        IF e \in DOMAIN origin THEN origin[e] ELSE text_epoch[e.uri]]

Finish(t, outcome) == [tasks[t] EXCEPT !.pc = "done", !.outcome = outcome, !.guard = FALSE]

\* did_change: one content change applied to the working rope: [rope, cache].
\* apply_change, the replacement of start_offset..end_offset.
apply_change_at(change, rope, start_offset, end_offset, cache) ==
    IF end_offset < start_offset THEN [rope |-> rope, cache |-> cache]
    ELSE [rope |-> SubSeq(rope, 1, start_offset) \o change.text
                   \o SubSeqFrom(rope, end_offset + 1),
          cache |-> cache]

\* apply_change, from the lookup of range.end on; end is its answer.
apply_change_end(change, rope, start_found, end) ==
    apply_change_at(change, rope,
        Min(start_found, len_chars(rope)),
        Min(IF IsSome(end.result) THEN Unwrap(end.result) ELSE start_found,
            len_chars(rope)),
        end.cache)

\* apply_change, from the lookup of range.start on; start is its answer.
apply_change_start(change, rope, uri, current_version, start) ==
    apply_change_end(change, rope,
        IF IsSome(start.result) THEN Unwrap(start.result) ELSE len_chars(rope),
        cached_position_to_offset(start.cache, uri, Unwrap(change.range).end, rope,
                                  current_version))

apply_change(change, rope, entries, uri, current_version) ==
    IF IsNone(change.range) THEN [rope |-> change.text, cache |-> entries]
    ELSE apply_change_start(change, rope, uri, current_version,
             cached_position_to_offset(entries, uri, Unwrap(change.range).start, rope,
                                       current_version))

RECURSIVE apply_changes(_, _, _, _, _)
apply_changes(content_changes, rope, entries, uri, current_version) ==
    IF content_changes = <<>> THEN [rope |-> rope, cache |-> entries]
    ELSE LET rest(next) ==
                 apply_changes(Tail(content_changes), next.rope, next.cache, uri,
                               current_version)
         IN rest(apply_change(Head(content_changes), rope, entries, uri,
                              current_version))

\* did_change from its first await to on_change's first await: the stored
\* rope is read and the content changes are applied to it.
DidChangeApply(t) ==
    /\ ~blocked
    /\ tasks[t].pc = "did_change"
    /\ LET uri == tasks[t].uri
           doc == documents[uri]
           rope == IF IsSome(doc) THEN Unwrap(doc).rope ELSE <<>>
           current_version == IF IsSome(doc) THEN Unwrap(doc).version ELSE None
           apply(applied) ==
               /\ hover_offset_cache' = applied.cache
               /\ origin' = OriginOf(applied.cache)
               /\ tasks' = [tasks EXCEPT ![t] = [@ EXCEPT !.rope = applied.rope,
                                                          !.pc = "on_change"]]
       IN apply(apply_changes(tasks[t].changes, rope, hover_offset_cache, uri,
                              current_version))
    /\ UNCHANGED <<documents, analysis_map, task_states, task_heap, published, blocked,
                   text_epoch, lru, fresh, an, eval>>

\* on_change between its first and second await: the document snapshot is
\* stored and the document's cache entries are dropped.
OnChangeStoreDocument(t) ==
    /\ ~blocked
    /\ tasks[t].pc = "on_change"
    /\ LET uri == tasks[t].uri
           kept == invalidate_uri(hover_offset_cache, uri)
       IN /\ documents' = [documents EXCEPT
                              ![uri] = Some(DocumentSnapshot(tasks[t].rope,
                                                             tasks[t].version))]
          /\ hover_offset_cache' = kept
          /\ text_epoch' = [text_epoch EXCEPT ![uri] = @ + 1]
          /\ origin' = [e \in Entries(kept) |-> origin[e]]
          /\ tasks' = [tasks EXCEPT ![t] = [@ EXCEPT !.pc = "analysis"]]
    /\ UNCHANGED <<analysis_map, task_states, task_heap, published, blocked,
                   lru, fresh, an, eval>>

\* A completion future that is suspended while it holds a reference into
\* analysis_map for uri.
GuardHeld(uri) ==
    \E u \in 1..Len(tasks) :
        tasks[u].guard /\ tasks[u].uri = uri /\ tasks[u].pc # "done"

\* on_change from its second await to publish_diagnostics: the diagnostics
\* and the analysis snapshot are built and the snapshot is stored (or the
\* entry removed).  The write waits for every reference into the entry; a
\* reference held by a suspended future of the same server task is never
\* released.
OnChangeStoreAnalysis(t) ==
    /\ ~blocked
    /\ tasks[t].pc = "analysis"
    /\ LET uri == tasks[t].uri
           store(built) ==
               /\ analysis_map' = [analysis_map EXCEPT ![uri] = built.snapshot]
               /\ tasks' = [tasks EXCEPT ![t] = [@ EXCEPT !.pc = "publish",
                                                          !.diagnostics = built.diagnostics]]
               /\ UNCHANGED blocked
       IN IF GuardHeld(uri)
          THEN /\ blocked' = TRUE
               /\ UNCHANGED <<analysis_map, tasks>>
          ELSE store(on_change_analysis(tasks[t].rope, tasks[t].version))
    /\ UNCHANGED <<documents, task_states, task_heap, hover_offset_cache, published,
                   text_epoch, origin, lru, fresh, an, eval>>

\* on_change: publish_diagnostics and the rest of the handler.
OnChangePublish(t) ==
    /\ ~blocked
    /\ tasks[t].pc = "publish"
    /\ published' = [published EXCEPT
                        ![tasks[t].uri] = Some([diagnostics |-> tasks[t].diagnostics,
                                                version |-> tasks[t].version])]
    /\ tasks' = [tasks EXCEPT ![t] = Finish(t, "")]
    /\ UNCHANGED <<documents, analysis_map, task_states, task_heap, hover_offset_cache,
                   blocked, text_epoch, origin, lru, fresh, an, eval>>

\* A did_close that drops the document's snapshots with its task state.
DidCloseForgets(t) ==
    /\ ~blocked
    /\ tasks[t].pc = "did_close"
    /\ task_states' = [task_states EXCEPT ![tasks[t].uri] = None]
    /\ documents' = [documents EXCEPT ![tasks[t].uri] = None]
    /\ analysis_map' = [analysis_map EXCEPT ![tasks[t].uri] = None]
    /\ tasks' = [tasks EXCEPT ![t] = Finish(t, "")]
    /\ UNCHANGED <<task_heap, hover_offset_cache, published,
                   blocked, text_epoch, origin, lru, fresh, an, eval>>

\* did_close after its await.
DidClose(t) ==
    /\ ~blocked
    /\ tasks[t].pc = "did_close"
    /\ task_states' = [task_states EXCEPT ![tasks[t].uri] = None]
    /\ tasks' = [tasks EXCEPT ![t] = Finish(t, "")]
    /\ UNCHANGED <<documents, analysis_map, task_heap, hover_offset_cache, published,
                   blocked, text_epoch, origin, lru, fresh, an, eval>>

\* The closure of hover and of goto_definition up to lookup_identifier:
\* [cache, observed, outcome].
position_query(uri, position) ==
    LET analysis == analysis_map[uri]
        document == documents[uri]
    IN IF IsNone(analysis) \/ IsNone(document)
       THEN [cache |-> hover_offset_cache, observed |-> NoObservation, outcome |-> "None"]
       ELSE LET rope == Unwrap(document).rope
                version == Unwrap(document).version
                semantic == Unwrap(analysis).semantic
                found == cached_position_to_offset(hover_offset_cache, uri, position,
                                                   rope, version)
                seen == [rope |-> Some(rope), version |-> version,
                         semantic |-> semantic, ast |-> Unwrap(analysis).ast,
                         offset |-> None]
            IN IF IsNone(semantic)
               THEN [cache |-> hover_offset_cache, observed |-> seen, outcome |-> "None"]
               ELSE [cache |-> found.cache,
                     observed |-> [seen EXCEPT !.offset = found.result],
                     outcome |-> IF IsSome(found.result) THEN "Lookup" ELSE "None"]

PositionQuery(t) ==
    LET answered(answer) ==
            /\ hover_offset_cache' = answer.cache
            /\ origin' = OriginOf(answer.cache)
            /\ tasks' = [tasks EXCEPT ![t] = [Finish(t, answer.outcome)
                                                 EXCEPT !.observed = answer.observed]]
            /\ UNCHANGED <<documents, analysis_map, task_states, task_heap, published,
                           blocked, text_epoch, lru, fresh, an, eval>>
    IN answered(position_query(tasks[t].uri, tasks[t].position))

Hover(t) == ~blocked /\ tasks[t].pc = "hover" /\ PositionQuery(t)

GotoDefinition(t) == ~blocked /\ tasks[t].pc = "goto_definition" /\ PositionQuery(t)


\* build_completion_items_async returns an empty list right after its
\* first checkpoint.
returns_early(context, offset, inside_service_block) ==
    \/ context = "Comment"
    \/ context = "Definition" /\ ~(IsSome(offset) /\ inside_service_block)

\* completion from its reads of the two maps to the context it determines:
\* the context, the analysis snapshot with the OnceCells of its cache as
\* the request leaves them, and the number of runs of from_sources and of
\* ScopeBindingIndex::from_semantic.
completion_answer(analysis_guard, at, cursor, scoped, determined) ==
    [context |-> determined.context,
     offset |-> at,
     inside_service_block |-> IsSome(cursor) /\ Unwrap(cursor).inside_service_block,
     analysis |-> IF IsSome(determined.cached)
                  THEN Some([Unwrap(analysis_guard) EXCEPT
                               !.completion_cache = determined.cached])
                  ELSE analysis_guard,
     spans_computed |-> determined.computed,
     scope_computed |-> scoped.computed]

semantic_ref(analysis_guard) ==
    IF IsSome(analysis_guard) THEN Unwrap(analysis_guard).semantic ELSE None

ast_ref(analysis_guard) ==
    IF IsSome(analysis_guard) THEN Unwrap(analysis_guard).ast ELSE None

\* completion, from determine_context on; scoped is the answer of
\* CompletionDocumentCache::scope_index.
completion_determined(analysis_guard, rope, doc_version, at, cursor, cached, scoped) ==
    completion_answer(analysis_guard, at, cursor, scoped,
        determine_context(at,
            IF IsSome(cached) THEN Some(scoped.cache) ELSE None,
            semantic_ref(analysis_guard), ast_ref(analysis_guard),
            rope, cursor, doc_version))

\* completion, from the scope index on; cursor is the Option of the
\* CursorContext.
completion_scoped(analysis_guard, rope, doc_version, at, cursor, cached) ==
    completion_determined(analysis_guard, rope, doc_version, at, cursor, cached,
        IF IsSome(cached)
        THEN CompletionDocumentCache_scope_index(
                  Unwrap(cached), semantic_ref(analysis_guard), doc_version)
        ELSE [cache |-> None, scope_index |-> None, computed |-> 0])

\* completion, from the offset of the position on; cached is the cache if
\* it is fresh.
completion_at(analysis_guard, rope, doc_version, at, cached) ==
    completion_scoped(analysis_guard, rope, doc_version, at,
        IF IsSome(at) THEN Some(CursorContext_new(rope, Unwrap(at))) ELSE None,
        cached)

completion_cache_of(analysis_guard, doc_version) ==
    IF /\ IsSome(analysis_guard)
       /\ IsSome(Unwrap(analysis_guard).completion_cache)
       /\ is_fresh(Unwrap(Unwrap(analysis_guard).completion_cache).version, doc_version)
    THEN Unwrap(analysis_guard).completion_cache
    ELSE None

completion_document(doc, analysis_guard, position, rope, doc_version) ==
    completion_at(analysis_guard, rope, doc_version,
                  position_to_offset(position, rope),
                  completion_cache_of(analysis_guard, doc_version))

completion_context(doc, analysis_guard, position) ==
    completion_document(doc, analysis_guard, position,
                        IF IsSome(doc) THEN Unwrap(doc).rope ELSE <<>>,
                        IF IsSome(doc) THEN Unwrap(doc).version ELSE None)

\* completion up to the first yield of build_completion_items_async.
CompletionStart(t) ==
    /\ ~blocked
    /\ tasks[t].pc = "completion"
    /\ LET uri == tasks[t].uri
           doc == documents[uri]
           rope == IF IsSome(doc) THEN Unwrap(doc).rope ELSE <<>>
           doc_version == IF IsSome(doc) THEN Unwrap(doc).version ELSE None
           analysis_guard == analysis_map[uri]
           start(classified, issued) ==
            /\ analysis_map' = [analysis_map EXCEPT ![uri] = classified.analysis]
            /\ task_states' = issued.task_states
            /\ task_heap' = issued.task_heap
            /\ tasks' = [tasks EXCEPT ![t] =
                  [@ EXCEPT !.pc = "checkpoint1",
                            !.token = issued.token,
                            !.guard = IsSome(analysis_guard),
                            !.context = classified.context,
                            !.early = returns_early(classified.context, classified.offset,
                                                    classified.inside_service_block),
                            !.observed =
                                [rope |-> Some(rope), version |-> doc_version,
                                 semantic |-> IF IsSome(analysis_guard)
                                              THEN Unwrap(analysis_guard).semantic ELSE None,
                                 ast |-> IF IsSome(analysis_guard)
                                         THEN Unwrap(analysis_guard).ast ELSE None,
                                 offset |-> classified.offset]]]
       IN start(completion_context(doc, analysis_guard, tasks[t].position),
                task_token(task_states, task_heap, uri, "Completion"))
    /\ UNCHANGED <<documents, hover_offset_cache, published, blocked, text_epoch,
                   origin, lru, fresh, an, eval>>

\* build_completion_items_async from one yield to the next (or to its return).
CompletionCheckpoint(t) ==
    /\ ~blocked
    /\ tasks[t].pc \in {"checkpoint1", "checkpoint2", "checkpoint3"}
    /\ LET token == tasks[t].token
           seen == task_heap[token.state][token.kind]
           checked == [tasks[t] EXCEPT !.seen = seen]
       IN tasks' = [tasks EXCEPT ![t] =
            IF yield_and_check(task_heap, token) = "Err"
            THEN [checked EXCEPT !.pc = "done", !.outcome = "Cancelled", !.guard = FALSE]
            ELSE IF tasks[t].pc = "checkpoint3" \/ (tasks[t].pc = "checkpoint1" /\ tasks[t].early)
            THEN [checked EXCEPT !.pc = "done", !.outcome = "Completed", !.guard = FALSE]
            ELSE [checked EXCEPT !.pc = IF tasks[t].pc = "checkpoint1"
                                        THEN "checkpoint2" ELSE "checkpoint3"]]
    /\ UNCHANGED <<documents, analysis_map, task_states, task_heap, hover_offset_cache,
                   published, blocked, text_epoch, origin, lru, fresh, an, eval>>

Init ==
    /\ ServerIdle
    /\ eval = EvalIdle
    /\ hover_offset_cache = <<>>
    /\ lru = LruIdle
    /\ fresh = FreshIdle
    /\ AnalyzeIdle

DidChangeApplies == \E t \in 1..Len(tasks) : DidChangeApply(t)
OnChangeStoresDocument == \E t \in 1..Len(tasks) : OnChangeStoreDocument(t)
OnChangeStoresAnalysis == \E t \in 1..Len(tasks) : OnChangeStoreAnalysis(t)
OnChangePublishes == \E t \in 1..Len(tasks) : OnChangePublish(t)
DidCloses == \E t \in 1..Len(tasks) : DidClose(t)
Hovers == \E t \in 1..Len(tasks) : Hover(t)
GotoDefinitions == \E t \in 1..Len(tasks) : GotoDefinition(t)
CompletionStarts == \E t \in 1..Len(tasks) : CompletionStart(t)
CompletionCheckpoints == \E t \in 1..Len(tasks) : CompletionCheckpoint(t)

Next ==
    \/ DidOpenArrives
    \/ DidChangeArrives
    \/ DidSaveArrives
    \/ DidCloseArrives
    \/ HoverArrives
    \/ GotoDefinitionArrives
    \/ CompletionArrives
    \/ DidChangeApplies
    \/ OnChangeStoresDocument
    \/ OnChangeStoresAnalysis
    \/ OnChangePublishes
    \/ DidCloses
    \/ Hovers
    \/ GotoDefinitions
    \/ CompletionStarts
    \/ CompletionCheckpoints

Spec == Init /\ [][Next]_vars


(***************************************************************************)
(* Properties of the server.                                               *)
(***************************************************************************)
Completions == {i \in 1..Len(tasks) : tasks[i].op = "completion"}

\* The completion requests that have taken their token.
Tokened == {i \in Completions : tasks[i].pc # "completion"}

Edits(uri) ==
    {i \in 1..Len(tasks) :
        tasks[i].uri = uri /\ tasks[i].op \in {"did_open", "did_change", "did_save"}}

Queries == {i \in 1..Len(tasks) : tasks[i].op \in {"hover", "goto_definition", "completion"}}

\* C1 as stated: whenever a completion request finishes while a later
\* completion request for the same document has been issued, its item build
\* reports Cancelled.
C1_SecondRequestCancelsFirst ==
    [][\A i \in Completions : \A j \in Completions :
          (/\ i < j
           /\ tasks[i].uri = tasks[j].uri
           /\ tasks[i].pc # "done"
           /\ tasks'[i].pc = "done")
          => tasks'[i].outcome = "Cancelled"]_vars

\* C1, amended: a completion build reports Cancelled exactly when another
\* completion request took a token from the same generation counter after
\* the build took its own and before the build's last checkpoint.  A later
\* request that takes its token only after that checkpoint leaves the
\* build's result alone.
C1_CancelledByLaterToken ==
    \A i \in Completions :
        tasks[i].pc = "done" =>
            LET mine == tasks[i].token
                later == {j \in Tokened \ {i} :
                            /\ tasks[j].token.state = mine.state
                            /\ tasks[j].token.generation > mine.generation
                            /\ tasks[j].token.generation <= tasks[i].seen}
            IN /\ tasks[i].outcome \in {"Cancelled", "Completed"}
               /\ tasks[i].outcome = "Cancelled" <=> later # {}

\* The first of two completion requests was cancelled by the second one's token.
C1_Witness ==
    \E i \in Completions : \E j \in Tokened :
        /\ i < j
        /\ tasks[i].pc = "done"
        /\ tasks[i].outcome = "Cancelled"
        /\ tasks[j].token.state = tasks[i].token.state
        /\ tasks[j].token.generation = tasks[i].token.generation + 1

SameAnalysis(stored, built) ==
    IF IsNone(stored) \/ IsNone(built) THEN stored = built
    ELSE /\ Unwrap(stored).ast = Unwrap(built).ast
         /\ Unwrap(stored).semantic = Unwrap(built).semantic
         /\ Unwrap(stored).version = Unwrap(built).version

\* C2 as stated: once the edits of a document have been handled and its
\* stored text has no AST or fails semantic analysis, the analysis store
\* holds no Semantic for it; and whatever Semantic or AST a query reads
\* together with a text is the one built from that text.
C2_NoStaleSemantic ==
    /\ \A uri \in EditDocs :
          (/\ \A i \in Edits(uri) : tasks[i].pc = "done"
           /\ IsSome(documents[uri])
           /\ LET built == on_change_analysis(Unwrap(documents[uri]).rope, None).snapshot
              IN IsNone(built) \/ IsNone(Unwrap(built).semantic))
          => (IsNone(analysis_map[uri]) \/ IsNone(Unwrap(analysis_map[uri]).semantic))
    /\ \A q \in Queries :
          LET seen == tasks[q].observed
              built == on_change_analysis(Unwrap(seen.rope), None).snapshot
          IN (IsSome(seen.rope) /\ (IsSome(seen.semantic) \/ IsSome(seen.ast))) =>
                /\ IsSome(built)
                /\ IsSome(seen.semantic) => seen.semantic = Unwrap(built).semantic
                /\ IsSome(seen.ast) => seen.ast = Unwrap(built).ast

\* C3 as stated: once the edits of a document have all been handled, the
\* document store holds the snapshot of the edit that arrived last, and
\* the analysis store holds the analysis of that snapshot, with its version.
C3_EditsInArrivalOrder ==
    \A uri \in EditDocs :
        (Edits(uri) # {} /\ \A i \in Edits(uri) : tasks[i].pc = "done") =>
            LET n == CHOOSE i \in Edits(uri) : \A j \in Edits(uri) : j <= i
            IN /\ documents[uri] = Some(DocumentSnapshot(tasks[n].rope, tasks[n].version))
               /\ SameAnalysis(analysis_map[uri],
                               on_change_analysis(tasks[n].rope, tasks[n].version).snapshot)

\* C7: every entry of the position-to-offset cache was computed from the
\* text its document holds since its last text change: a text change drops
\* all entries of the document, and no handler inserts an entry computed
\* from a text it read before the change.
C7_NoStaleOffsets ==
    /\ DOMAIN origin = Entries(hover_offset_cache)
    /\ \A e \in Entries(hover_offset_cache) : origin[e] = text_epoch[e.uri]

\* A did_change cached offsets of version 1 while it applied its ranged
\* change, its text was stored, and the cache now holds only offsets that a
\* later query computed from the new text.
C7_Witness ==
    /\ text_epoch["a.did"] = 2
    /\ \E t \in 1..Len(tasks) :
          /\ tasks[t].op = "did_change"
          /\ tasks[t].pc = "done"
          /\ IsSome(tasks[t].changes[1].range)
          /\ Len(tasks[t].rope) = 2 * DecStride
    /\ hover_offset_cache # <<>>
    /\ \A e \in Entries(hover_offset_cache) : e.version = Some(2)

(***************************************************************************)
(* SpecLookup: an identifier index is filled with intervals of every kind  *)
(* and queried at an offset.                                               *)
(***************************************************************************)
MaxIntervals == 3
MaxLookupOffset == 3

LookupVals ==
    {IdentBinding(0), IdentReference(0), IdentField(0, "Label"), IdentField(0, "Type"),
     IdentServiceMethod(0), IdentFuncParam(0), IdentPrimitive("nat"),
     IdentKeyword("opt"), IdentActor}

LookupSpans ==
    {Span(a, b) : a \in 0..1, b \in 1..MaxLookupOffset} \ {Span(1, 1)}

LookupIdle == [fn |-> "lookup", intervals |-> <<>>, offset |-> 0, best |-> None, calls |-> 0]

InitLookup ==
    /\ ServerIdle
    /\ hover_offset_cache = <<>>
    /\ lru = LruIdle
    /\ fresh = FreshIdle
    /\ AnalyzeIdle
    /\ eval = LookupIdle

EvalUnchanged == UNCHANGED <<serverVars, hover_offset_cache, lru, fresh, an>>

\* ident_range.insert(Interval {..})
LookupInsert ==
    /\ eval.calls = 0
    /\ Len(eval.intervals) < MaxIntervals
    /\ \E val \in LookupVals : \E span \in LookupSpans :
          LET elem == Interval(span.start, span.end, val)
          IN \E i \in lapper_insert_points(eval.intervals, elem) :
                eval' = [eval EXCEPT !.intervals = lapper_insert_at(@, elem, i)]
    /\ EvalUnchanged

\* lookup_identifier(semantic, offset), up to its choice of an interval
LookupFind ==
    /\ eval.calls = 0
    /\ \E offset \in 0..(MaxLookupOffset - 1) :
          eval' = [eval EXCEPT !.offset = offset, !.calls = 1,
                               !.best = best_interval(eval.intervals, offset)]
    /\ EvalUnchanged

NextLookup == LookupInsert \/ LookupFind

SpecLookup == InitLookup /\ [][NextLookup]_vars

\* The rank of a kind, as the ranking Reference > Primitive = Keyword >
\* {Actor, field label, service method, function parameter} > field type >
\* Binding orders them.
LookupRank(val) ==
    CASE val.tag = "Reference" -> 5
      [] val.tag \in {"Primitive", "Keyword"} -> 4
      [] val.tag \in {"Actor", "ServiceMethod", "FuncParam"} -> 3
      [] val.tag = "Field" -> IF val.part = "Label" THEN 3 ELSE 2
      [] OTHER -> 1

LookupContaining ==
    {i \in 1..Len(eval.intervals) :
        eval.intervals[i].start <= eval.offset /\ eval.offset < eval.intervals[i].stop}

LookupLen(i) == eval.intervals[i].stop - eval.intervals[i].start

\* C11: of the intervals that contain the queried offset, lookup_identifier
\* selects one whose kind ranks highest in the order Reference > Primitive
\* = Keyword > {Actor, field label, service method, function parameter} >
\* field type > Binding, and of those one with the smallest span length;
\* it selects nothing exactly when no interval contains the offset.
C11_LookupPriority ==
    (eval.fn = "lookup" /\ eval.calls = 1) =>
        IF LookupContaining = {} THEN IsNone(eval.best)
        ELSE /\ IsSome(eval.best)
             /\ \E i \in LookupContaining :
                   /\ eval.intervals[i].val = Unwrap(eval.best).val
                   /\ Span(eval.intervals[i].start, eval.intervals[i].stop)
                        = Unwrap(eval.best).span
                   /\ \A j \in LookupContaining :
                         \/ LookupRank(eval.intervals[j].val)
                              < LookupRank(eval.intervals[i].val)
                         \/ /\ LookupRank(eval.intervals[j].val)
                                 = LookupRank(eval.intervals[i].val)
                            /\ LookupLen(i) <= LookupLen(j)

\* Three intervals contain the offset: two kinds of the highest rank
\* present with different lengths, and one of a lower rank that is
\* shorter than both; the shorter of the two high-ranking ones is chosen.
C11_Witness ==
    /\ eval.fn = "lookup" /\ eval.calls = 1
    /\ Cardinality(LookupContaining) = 3
    /\ \E i, j, k \in LookupContaining :
          /\ LookupRank(eval.intervals[i].val) = LookupRank(eval.intervals[j].val)
          /\ LookupLen(i) < LookupLen(j)
          /\ LookupRank(eval.intervals[k].val) < LookupRank(eval.intervals[i].val)
          /\ LookupLen(k) < LookupLen(i)
          /\ Unwrap(eval.best).val = eval.intervals[i].val
          /\ eval.intervals[i].val.tag # eval.intervals[j].val.tag

(***************************************************************************)
(* SpecNavigate: a sample program is analysed and the identifier under an  *)
(* offset of its text is looked up.                                        *)
(***************************************************************************)
MaxNavOffset == 30

NavIdle ==
    [fn |-> "lookup_identifier", prog |-> [decs |-> <<>>, actor |-> None],
     semantic |-> None, offset |-> 0, info |-> None, calls |-> 0]

InitNavigate ==
    /\ ServerIdle
    /\ hover_offset_cache = <<>>
    /\ lru = LruIdle
    /\ fresh = FreshIdle
    /\ AnalyzeIdle
    /\ \E prog \in AnalyzePrograms : eval = [NavIdle EXCEPT !.prog = prog]

\* analyze_program(&ast, &rope) on the program's text
NavAnalyze ==
    /\ eval.calls = 0
    /\ IsNone(eval.semantic)
    /\ LET analyzed(result) ==
               /\ IsSome(result.semantic)
               /\ eval' = [eval EXCEPT !.semantic = result.semantic]
       IN analyzed(analyze_program(ProgAst(eval.prog), ProgText(eval.prog)))
    /\ EvalUnchanged

\* lookup_identifier(&semantic, offset)
NavLookup ==
    /\ IsSome(eval.semantic)
    /\ \E offset \in 0..MaxNavOffset :
          eval' = [eval EXCEPT !.offset = offset, !.calls = 1,
                               !.info = lookup_identifier(Unwrap(eval.semantic), offset)]
    /\ EvalUnchanged

NextNavigate == NavAnalyze \/ NavLookup

SpecNavigate == InitNavigate /\ [][NextNavigate]_vars

NavLooked == eval.fn = "lookup_identifier" /\ eval.calls = 1

\* The indexed intervals that contain the queried offset.
NavContaining ==
    LET ident_range == Unwrap(eval.semantic).ident_range
    IN {i \in DOMAIN ident_range :
            ident_range[i].start <= eval.offset /\ eval.offset < ident_range[i].stop}

\* The offset lies in the identifier of one binding and in no other
\* indexed span.
NavOnlyBinding ==
    /\ Cardinality(NavContaining) = 1
    /\ \A i \in NavContaining :
          Unwrap(eval.semantic).ident_range[i].val.tag = "Binding"

NavBindingId ==
    Unwrap(eval.semantic).ident_range[CHOOSE i \in NavContaining : TRUE].val.id

\* C12: for an offset inside the identifier span of exactly one binding and
\* inside no other indexed span, lookup_identifier returns that binding's
\* symbol, the identifier's span as the identifier span, and the span of
\* the binding's own declaration in the syntax tree as the definition span.
C12_BindingReflexive ==
    (NavLooked /\ NavOnlyBinding) =>
        LET dec == ProgAst(eval.prog).decs[NavBindingId + 1]
        IN /\ IsSome(eval.info)
           /\ Unwrap(eval.info).symbol_id = Some(NavBindingId)
           /\ Unwrap(eval.info).reference_id = None
           /\ Unwrap(eval.info).definition_span
                = Some(IF dec.dec = "TypD" THEN dec.binding.span ELSE dec.span)
           /\ Unwrap(eval.info).ident_span.start <= eval.offset
           /\ eval.offset < Unwrap(eval.info).ident_span.end

\* The identifier of the second declaration of a two-declaration program
\* is looked up: its definition span is the second declaration, which
\* differs from the identifier's own span.
C12_Witness ==
    /\ NavLooked /\ NavOnlyBinding
    /\ NavBindingId = 1
    /\ ProgAst(eval.prog).decs[2].dec = "TypD"
    /\ IsSome(eval.info)
    /\ Unwrap(eval.info).definition_span = Some(ProgAst(eval.prog).decs[2].binding.span)
    /\ Unwrap(eval.info).definition_span # Some(Unwrap(eval.info).ident_span)

(***************************************************************************)
(* SpecPosition: the two conversions of position.rs on short texts.        *)
(***************************************************************************)
MaxRopeLen == 4
MaxLine == 4
MaxColumn == 5

PositionRopes == UNION {[1..n -> {"a", "\n"}] : n \in 0..MaxRopeLen}

PositionIdle ==
    [fn |-> "none", rope |-> <<>>, position |-> Position(0, 0), offset |-> 0,
     result |-> None, back |-> None]

InitPosition ==
    /\ ServerIdle
    /\ hover_offset_cache = <<>>
    /\ lru = LruIdle
    /\ fresh = FreshIdle
    /\ AnalyzeIdle
    /\ \E rope \in PositionRopes : eval = [PositionIdle EXCEPT !.rope = rope]

\* position_to_offset(position, &rope)
PositionToOffset ==
    /\ \E line \in 0..MaxLine : \E character \in 0..MaxColumn :
          eval' = [eval EXCEPT !.fn = "position_to_offset",
                               !.position = Position(line, character),
                               !.result = position_to_offset(Position(line, character),
                                                             eval.rope)]
    /\ EvalUnchanged

\* offset_to_position(offset, &rope)
OffsetToPosition ==
    /\ \E offset \in 0..(MaxRopeLen + 2) :
          eval' = [eval EXCEPT !.fn = "offset_to_position",
                               !.offset = offset,
                               !.result = offset_to_position(offset, eval.rope)]
    /\ EvalUnchanged

\* offset_to_position(offset, &rope) and, on its result, position_to_offset.
PositionRoundTrip ==
    /\ \E offset \in 0..(MaxRopeLen + 2) :
          LET there(position) ==
                  eval' = [eval EXCEPT
                             !.fn = "round_trip",
                             !.offset = offset,
                             !.result = position,
                             !.back = IF IsSome(position)
                                      THEN position_to_offset(Unwrap(position), eval.rope)
                                      ELSE None]
          IN there(offset_to_position(offset, eval.rope))
    /\ EvalUnchanged

NextPosition == PositionToOffset \/ OffsetToPosition \/ PositionRoundTrip

SpecPosition == InitPosition /\ [][NextPosition]_vars

\* The offsets at which a line of the text starts: 0 and the offset after
\* every line break.
PosLineStarts == {0} \cup {i \in 1..Len(eval.rope) : eval.rope[i] = "\n"}

\* The start of line l, for l a line of the text.
PosLineStart(l) ==
    CHOOSE s \in PosLineStarts : Cardinality({r \in PosLineStarts : r < s}) = l

\* The character length of line l, its line break included.
PosLineLength(l) ==
    LET later == {s \in PosLineStarts : s > PosLineStart(l)}
    IN IF later = {} THEN Len(eval.rope) - PosLineStart(l)
       ELSE (CHOOSE s \in later : \A r \in later : s <= r) - PosLineStart(l)

\* C13: position_to_offset returns none exactly when the line index is
\* not a line of the text or the column exceeds that line's character
\* length (the line break counted), and otherwise the line's start offset
\* plus the column; offset_to_position returns none exactly when the
\* offset exceeds the length of the text.
C13_PositionBounds ==
    /\ eval.fn = "position_to_offset" =>
          IF \/ eval.position.line >= Cardinality(PosLineStarts)
             \/ eval.position.character > PosLineLength(eval.position.line)
          THEN eval.result = None
          ELSE eval.result
                 = Some(PosLineStart(eval.position.line) + eval.position.character)
    /\ eval.fn = "offset_to_position" =>
          (eval.result = None <=> eval.offset > Len(eval.rope))

\* The column at the very end of a line that is not the last one is
\* accepted and gives the start of the next line; in another state an
\* offset one past the end of the text is refused.
C13_Witness ==
    /\ eval.fn = "position_to_offset"
    /\ eval.rope = <<"a", "\n", "a">>
    /\ eval.position = Position(0, 2)
    /\ eval.result = Some(2)

(***************************************************************************)
(* SpecContext: a document is opened and analysed; completion requests at  *)
(* the offsets of its text classify the cursor.                            *)
(***************************************************************************)
MaxRequests == 2

Text_record_actor ==
    ProgText([decs |-> <<[dec |-> "TypD", id |-> "A",
                          shape |-> [k |-> 4, n |-> "A", m |-> "A"]]>>,
              actor |-> Some("A")])

Text_definition == Chars_kw_type \o <<" ", "A">>

Text_variant_body == Chars_kw_type \o <<" ", "A", "=">> \o Chars_kw_variant
                        \o <<"{", "\n", " ", "n">>

Text_service_body == Chars_kw_service \o <<":", "{", "\n", " ", "u">>

Text_comment == <<"/", "/">> \o Chars_kw_type \o <<" ", "A", "=">>

Text_colon == Chars_kw_type \o <<" ", "A", ":">>

ContextTexts ==
    {Text_record_actor, Text_forward, Text_undefined, Text_broken, Text_definition,
     Text_variant_body, Text_service_body, Text_comment, Text_colon}

ContextIdle ==
    [fn |-> "none", doc |-> None, analysis |-> None, offset |-> 0,
     heuristic |-> "", context |-> "", requests |-> 0,
     spans_computed |-> 0, scope_computed |-> 0]

\* did_open: the document snapshot and the analysis snapshot of its text.
InitContext ==
    /\ ServerIdle
    /\ hover_offset_cache = <<>>
    /\ lru = LruIdle
    /\ fresh = FreshIdle
    /\ AnalyzeIdle
    /\ \E rope \in ContextTexts :
          eval = [ContextIdle EXCEPT
                    !.doc = Some(DocumentSnapshot(rope, Some(1))),
                    !.analysis = on_change_analysis(rope, Some(1)).snapshot]

\* heuristic_context(Some(offset), &rope)
ContextHeuristic ==
    /\ \E offset \in 0..Len(Unwrap(eval.doc).rope) :
          eval' = [eval EXCEPT
                     !.fn = "heuristic_context",
                     !.offset = offset,
                     !.heuristic = heuristic_context(Some(offset), Unwrap(eval.doc).rope)]
    /\ EvalUnchanged

\* completion, up to the context it determines
ContextCompletion ==
    /\ eval.requests < MaxRequests
    /\ \E offset \in 0..Len(Unwrap(eval.doc).rope) :
          LET answered(classified) ==
                  eval' = [eval EXCEPT
                             !.fn = "completion",
                             !.offset = offset,
                             !.context = classified.context,
                             !.analysis = classified.analysis,
                             !.requests = @ + 1,
                             !.spans_computed = @ + classified.spans_computed,
                             !.scope_computed = @ + classified.scope_computed]
          IN answered(completion_context(eval.doc, eval.analysis,
                          Unwrap(offset_to_position(offset, Unwrap(eval.doc).rope))))
    /\ EvalUnchanged

NextContext == ContextHeuristic \/ ContextCompletion

SpecContext == InitContext /\ [][NextContext]_vars

ContextRope == Unwrap(eval.doc).rope

\* The heuristic's answer at the offset of the request.
ContextHeuristicAnswer ==
    heuristic_context_from_cursor(CursorContext_new(ContextRope, eval.offset))

\* The classification of the offset by the spans of the document's syntax
\* tree and Semantic.
ContextSpanAnswer ==
    LET spans == IF IsSome(eval.analysis)
                 THEN from_sources(Unwrap(eval.analysis).ast, Unwrap(eval.analysis).semantic,
                                   Some(ContextRope))
                 ELSE None
    IN IF IsNone(spans) THEN "Unknown"
       ELSE LET s == Unwrap(spans)
            IN IF \E i \in DOMAIN s.definition_spans :
                     s.definition_spans[i].start <= eval.offset
                     /\ eval.offset < s.definition_spans[i].end
               THEN "Definition"
               ELSE IF \E i \in DOMAIN s.value_spans :
                          s.value_spans[i].start <= eval.offset
                          /\ eval.offset < s.value_spans[i].end
               THEN "Value"
               ELSE IF \E i \in DOMAIN s.type_spans :
                          s.type_spans[i].start <= eval.offset
                          /\ eval.offset < s.type_spans[i].end
               THEN "Type"
               ELSE "Unknown"

\* C14: determine_context returns the heuristic's answer whenever that is
\* Value, TopLevel, Definition or Comment; otherwise the span-based
\* classification when that is not Unknown; otherwise the heuristic's
\* answer.
C14_ResolutionOrder ==
    eval.fn = "completion" =>
        eval.context =
            IF ContextHeuristicAnswer \in {"Value", "TopLevel", "Definition", "Comment"}
            THEN ContextHeuristicAnswer
            ELSE IF ContextSpanAnswer # "Unknown" THEN ContextSpanAnswer
            ELSE ContextHeuristicAnswer

\* The heuristic says Type at a field label and the spans say Value:
\* the spans decide.
C14_Witness ==
    /\ eval.fn = "completion"
    /\ ContextHeuristicAnswer = "Type"
    /\ ContextSpanAnswer = "Value"
    /\ eval.context = "Value"

\* The offset at which the cursor's line starts.
CursorLineStart ==
    LET breaks == {i \in 1..eval.offset : ContextRope[i] = "\n"}
    IN IF breaks = {} THEN 0 ELSE CHOOSE i \in breaks : \A j \in breaks : j <= i

\* The text of the cursor's line before the cursor.
CursorLinePrefix == SubSeq(ContextRope, CursorLineStart + 1, eval.offset)

CursorAtLineEnd ==
    eval.offset = Len(ContextRope) \/ ContextRope[eval.offset + 1] = "\n"

CursorInComment ==
    in_comment(cursor_scan_state_from_text(SubSeq(ContextRope, 1, eval.offset)))

\* The cursor is inside an open, unclosed record, variant or service body.
CursorInOpenBody ==
    \/ inside_record_variant_block_from_text(SubSeq(ContextRope, 1, eval.offset))
    \/ inside_service_block_from_text(SubSeq(ContextRope, 1, eval.offset))

\* The line prefix contains '=' with 'type' somewhere before it.
CursorTypeBeforeEquals ==
    \E i \in 1..Len(CursorLinePrefix) :
        /\ CursorLinePrefix[i] = "="
        /\ \E j \in 1..(i - 4) : SubSeq(CursorLinePrefix, j, j + 3) = Chars_kw_type

CursorLineStartsWithType == starts_with(trim_start(CursorLinePrefix), Chars_kw_type)

MaxTokens == 3
MaxCancels == 1
MaxCloses == 1

TokensIdle ==
    [fn |-> "tokens", issued |-> <<>>, closes |-> [d \in Docs |-> 0], cancels |-> 0,
     last |-> [op |-> "none", uri |-> "", state |-> 0, kind |-> "Completion"]]

InitTokens ==
    /\ ServerIdle
    /\ hover_offset_cache = <<>>
    /\ lru = LruIdle
    /\ fresh = FreshIdle
    /\ AnalyzeIdle
    /\ eval = TokensIdle

TokensFrame ==
    UNCHANGED <<documents, analysis_map, tasks, published, blocked, text_epoch, origin,
                hover_offset_cache, lru, fresh, an>>

\* server.task_token(uri, kind)
TokenIssue ==
    /\ Len(eval.issued) < MaxTokens
    /\ \E uri \in Docs : \E kind \in DocumentTaskKinds :
          LET issued == task_token(task_states, task_heap, uri, kind)
          IN /\ task_states' = issued.task_states
             /\ task_heap' = issued.task_heap
             /\ eval' = [eval EXCEPT
                          !.issued = Append(@, [uri |-> uri, token |-> issued.token,
                                                epoch |-> eval.closes[uri]]),
                          !.last = [op |-> "issue", uri |-> uri,
                                    state |-> issued.token.state, kind |-> kind]]
    /\ TokensFrame

\* token.cancel()
TokenCancel ==
    /\ eval.cancels < MaxCancels
    /\ \E i \in DOMAIN eval.issued :
          LET token == eval.issued[i].token
          IN /\ task_heap' = [task_heap EXCEPT ![token.state][token.kind] = cancel(@)]
             /\ eval' = [eval EXCEPT
                          !.cancels = @ + 1,
                          !.last = [op |-> "cancel", uri |-> eval.issued[i].uri,
                                    state |-> token.state, kind |-> token.kind]]
    /\ UNCHANGED task_states
    /\ TokensFrame

\* did_close: self.task_states.remove(&uri)
TokenClose ==
    /\ \E uri \in Docs :
          /\ eval.closes[uri] < MaxCloses
          /\ task_states' = [task_states EXCEPT ![uri] = None]
          /\ eval' = [eval EXCEPT
                       !.closes[uri] = @ + 1,
                       !.last = [op |-> "close", uri |-> uri, state |-> 0,
                                 kind |-> "Completion"]]
    /\ UNCHANGED task_heap
    /\ TokensFrame

NextTokens == TokenIssue \/ TokenCancel \/ TokenClose

SpecTokens == InitTokens /\ [][NextTokens]_vars

TokensOn == eval.fn = "tokens"

\* Two tokens of one document and one kind, the first issued earlier.
SameDocumentAndKind(i, j) ==
    /\ i < j
    /\ eval.issued[i].uri = eval.issued[j].uri
    /\ eval.issued[i].token.kind = eval.issued[j].token.kind

\* C16 as stated: all tokens issued for one document and one kind share
\* one generation counter, and a token is invalid once a later token of
\* that document and kind has been issued.
C16_OneCounterPerDocumentAndKind ==
    TokensOn =>
        \A i, j \in DOMAIN eval.issued :
            SameDocumentAndKind(i, j) =>
                /\ eval.issued[i].token.state = eval.issued[j].token.state
                /\ token_is_cancelled(task_heap, eval.issued[i].token)

\* C16, amended: tokens issued for one document and one kind with no
\* did_close of that document between them share one generation counter,
\* and the earlier one is invalid once the later one has been issued; the
\* generations of one counter are issued in increasing order.
C16_OneCounterWhileOpen ==
    TokensOn =>
        \A i, j \in DOMAIN eval.issued :
            (SameDocumentAndKind(i, j) /\ eval.issued[i].epoch = eval.issued[j].epoch) =>
                /\ eval.issued[i].token.state = eval.issued[j].token.state
                /\ eval.issued[i].token.generation < eval.issued[j].token.generation
                /\ token_is_cancelled(task_heap, eval.issued[i].token)

\* Two tokens of one document and kind issued without a close between
\* them, and a third one of the same document and kind issued after a
\* close, which has a counter of its own.
C16_Witness ==
    /\ TokensOn
    /\ Len(eval.issued) = 3
    /\ SameDocumentAndKind(1, 2) /\ SameDocumentAndKind(2, 3)
    /\ eval.issued[1].epoch = eval.issued[2].epoch
    /\ eval.issued[3].epoch > eval.issued[2].epoch
    /\ eval.issued[1].token.state = eval.issued[2].token.state
    /\ eval.issued[3].token.state # eval.issued[2].token.state
    /\ token_is_cancelled(task_heap, eval.issued[1].token)

\* C17: a step that issues or cancels a token changes only the counter of
\* that token's document state and kind, and a token that was active
\* becomes cancelled only in a step that issues or cancels a token on the
\* token's own counter; closing a document changes no counter.
C17_KindAndDocumentScoped ==
    [][TokensOn =>
        /\ \A s \in DOMAIN task_heap : \A k \in DocumentTaskKinds :
              task_heap'[s][k] # task_heap[s][k] =>
                  /\ eval'.last.op \in {"issue", "cancel"}
                  /\ eval'.last.state = s
                  /\ eval'.last.kind = k
        /\ \A i \in DOMAIN eval.issued :
              (/\ ~token_is_cancelled(task_heap, eval.issued[i].token)
               /\ token_is_cancelled(task_heap', eval.issued[i].token)) =>
                  /\ eval'.last.op \in {"issue", "cancel"}
                  /\ eval'.last.state = eval.issued[i].token.state
                  /\ eval'.last.kind = eval.issued[i].token.kind]_vars

\* Tokens of two kinds of one document and a token of the other document
\* are held; a later token of the first kind has been issued, and only
\* the first token is cancelled.
C17_Witness ==
    /\ TokensOn
    /\ Len(eval.issued) = 3
    /\ eval.last.op = "cancel"
    /\ eval.last.state = eval.issued[1].token.state
    /\ eval.last.kind = eval.issued[1].token.kind
    /\ token_is_cancelled(task_heap, eval.issued[1].token)
    /\ eval.issued[2].uri = eval.issued[1].uri
    /\ eval.issued[2].token.kind # eval.issued[1].token.kind
    /\ eval.issued[3].uri # eval.issued[1].uri
    /\ ~token_is_cancelled(task_heap, eval.issued[2].token)
    /\ ~token_is_cancelled(task_heap, eval.issued[3].token)

(***************************************************************************)
(* SpecTwoDocs: the server of Spec, started with a second document that    *)
(* is open and analysed, has issued a completion token, and whose hover    *)
(* queries have filled the offset cache.  Every request of the             *)
(* specification is for the first document.                                *)
(***************************************************************************)
OtherDoc == "b.did"

Text_other ==
    ProgText([decs |-> <<[dec |-> "TypD", id |-> "A",
                          shape |-> [k |-> 2, n |-> "B", m |-> "A"]],
                         [dec |-> "TypD", id |-> "B",
                          shape |-> [k |-> 1, n |-> "A", m |-> "A"]]>>,
              actor |-> Some("A")])

\* The cache after hover queries at the first HoverCacheCapacity offsets of
\* the second document's text.
OtherEntries ==
    [i \in 1..HoverCacheCapacity |->
        HoverCacheEntry(OtherDoc, Some(1),
                        Unwrap(offset_to_position(i - 1, Text_other)), i - 1)]

InitTwoDocs ==
    LET opened(stored, issued) ==
            /\ documents = [d \in Docs |->
                               IF d = OtherDoc
                               THEN Some(DocumentSnapshot(Text_other, Some(1)))
                               ELSE None]
            /\ analysis_map = [d \in Docs |->
                                  IF d = OtherDoc THEN stored.snapshot ELSE None]
            /\ task_states = issued.task_states
            /\ task_heap = issued.task_heap
            /\ tasks = <<>>
            /\ published = [d \in Docs |->
                               IF d = OtherDoc
                               THEN Some([diagnostics |-> stored.diagnostics,
                                          version |-> Some(1)])
                               ELSE None]
            /\ blocked = FALSE
            /\ text_epoch = [d \in Docs |-> IF d = OtherDoc THEN 1 ELSE 0]
            /\ hover_offset_cache = OtherEntries
            /\ origin = [e \in Entries(OtherEntries) |-> 1]
            /\ eval = EvalIdle
            /\ lru = LruIdle
            /\ fresh = FreshIdle
            /\ AnalyzeIdle
    IN opened(on_change_analysis(Text_other, Some(1)),
              task_token([d \in Docs |-> None], <<>>, OtherDoc, "Completion"))

SpecTwoDocs == InitTwoDocs /\ [][Next]_vars

\* The offset-cache entries of the second document, oldest first.
OtherCached(entries) == SelectSeq(entries, LAMBDA e : e.uri = OtherDoc)

EditCached(entries) == SelectSeq(entries, LAMBDA e : e.uri # OtherDoc)

\* The document snapshot, the analysis snapshot and the task counters of
\* the second document are left as they are.
OtherSnapshotsUnchanged ==
    /\ documents'[OtherDoc] = documents[OtherDoc]
    /\ analysis_map'[OtherDoc] = analysis_map[OtherDoc]
    /\ task_states'[OtherDoc] = task_states[OtherDoc]
    /\ task_heap'[Unwrap(task_states[OtherDoc])] = task_heap[Unwrap(task_states[OtherDoc])]

\* C18 as stated: a query or an edit on one document leaves the document
\* snapshot, the analysis snapshot, the task counters and the offset-cache
\* entries of a different document unchanged.
C18_OtherDocumentUnchanged ==
    [][/\ OtherSnapshotsUnchanged
       /\ OtherCached(hover_offset_cache') = OtherCached(hover_offset_cache)]_vars

\* C18, amended: a query or an edit on one document leaves the document
\* snapshot, the analysis snapshot and the task counters of a different
\* document unchanged; none of that document's offset-cache entries is
\* altered or added, and its least recently used entries are removed only
\* to make room, in a full cache, for entries of the document queried.
C18_OtherDocumentOnlyEvicted ==
    [][/\ OtherSnapshotsUnchanged
       /\ LET before == OtherCached(hover_offset_cache)
              after == OtherCached(hover_offset_cache')
              removed == Len(before) - Len(after)
          IN /\ removed >= 0
             /\ after = SubSeq(before, removed + 1, Len(before))
             /\ removed > 0 =>
                   /\ Len(hover_offset_cache') = HoverCacheCapacity
                   /\ removed <= Len(EditCached(hover_offset_cache'))
                                    - Len(EditCached(hover_offset_cache))]_vars

\* A hover on the first document has put an entry into the full cache:
\* the oldest entry of the second document is gone, its snapshots are
\* the ones of the initial state.
C18_Witness ==
    /\ Len(OtherCached(hover_offset_cache)) = HoverCacheCapacity - 1
    /\ Len(EditCached(hover_offset_cache)) = 1
    /\ documents[OtherDoc] = Some(DocumentSnapshot(Text_other, Some(1)))
    /\ IsSome(analysis_map[OtherDoc])
    /\ IsSome(documents["a.did"])

\* C19: for one document version, the three classification-span lists and
\* the scope-binding index are each computed at most once, however many
\* completion requests are served at that version.
C19_ComputedOncePerVersion ==
    /\ eval.spans_computed <= 1
    /\ eval.scope_computed <= 1

\* The snapshot stored by on_change after an analysis pass that failed.
AnFailedSnapshot == Unwrap(an.stored.snapshot)

AnFailed == an.phase = "done" /\ IsSome(an.result.err)

\* C20 as stated: when the semantic analysis of the new text fails, the
\* analysis snapshot stored by on_change carries no completion cache.
C20_NoCacheOnFailure ==
    AnFailed => IsNone(AnFailedSnapshot.completion_cache)

\* C20, amended: when the semantic analysis of the new text fails, the
\* analysis snapshot stored by on_change carries a completion cache built
\* from the syntax tree alone and stamped with the version of the text: its
\* span lists are those of the syntax tree, and it gives no scope-binding
\* index.
C20_AstOnlyCacheOnFailure ==
    AnFailed =>
        /\ IsNone(AnFailedSnapshot.semantic)
        /\ AnFailedSnapshot.completion_cache
              = Some([spans |-> None, scope_index |-> None, has_ast |-> TRUE,
                      has_semantic |-> FALSE, version |-> Some(1)])
        /\ LET cache == Unwrap(AnFailedSnapshot.completion_cache)
               rope == ProgText(an.prog)
           IN /\ CompletionDocumentCache_spans(cache, Some(1), AnFailedSnapshot.ast,
                                               None, Some(rope)).spans
                    = from_sources(Some(AnAst), None, Some(rope))
              /\ IsNone(CompletionDocumentCache_scope_index(cache, None, Some(1)).scope_index)

\* A failed pass whose stored snapshot has a cache that yields type spans.
C20_Witness ==
    /\ AnFailed
    /\ IsSome(AnFailedSnapshot.completion_cache)
    /\ LET cache == Unwrap(AnFailedSnapshot.completion_cache)
           spans == CompletionDocumentCache_spans(cache, Some(1), AnFailedSnapshot.ast,
                                                  None, Some(ProgText(an.prog))).spans
       IN IsSome(spans) /\ Len(Unwrap(spans).type_spans) >= 1


(***************************************************************************)
(* Names without a declaration.                                            *)
(***************************************************************************)
\* C21: once the pass has returned, every use of a name that no declaration
\* binds is a reference of the returned Semantic with no owning symbol: it
\* is in the reference arena and in the span index, no list of
\* symbol_id_to_references holds it, and lookup_identifier at its offset
\* returns an identifier without definition span.
C21_UndefinedReferenceRecorded ==
    an.phase \in {"on_change", "done"} =>
        \A k \in Undefined(an.prog) :
            LET span == Span(VarRefs(an.prog)[k].start, VarRefs(an.prog)[k].start + 1)
            IN /\ IsSome(an.result.semantic)
               /\ LET semantic == Unwrap(an.result.semantic)
                      table == semantic.table
                      found == lookup_identifier(semantic, span.start)
                  IN /\ span \in DOMAIN table.span_to_reference_id
                     /\ table.reference_id_to_reference[table.span_to_reference_id[span] + 1]
                           = [span |-> span, symbol_id |-> None]
                     /\ \A sid \in DOMAIN table.symbol_id_to_references :
                           \A i \in DOMAIN table.symbol_id_to_references[sid] :
                               table.symbol_id_to_references[sid][i]
                                   # table.span_to_reference_id[span]
                     /\ IsSome(found)
                     /\ Unwrap(found).ident_span = span
                     /\ IsNone(Unwrap(found).definition_span)


(***************************************************************************)
(* SpecDiagnose: on_change on one text, from the parse to                  *)
(* publish_diagnostics, one collected error at a time.                     *)
(***************************************************************************)
MaxDiagnoseLen == 3

DiagnoseChars == {Char_e_acute, "#", "A", "\n"}

DiagnoseTexts ==
    SeqsUpTo(DiagnoseChars, MaxDiagnoseLen)
        \cup {Text_forward, Text_undefined, Text_broken, Text_forward \o <<";">>}

DiagnoseDoc == "a.did"

DiagnoseIdle ==
    [fn |-> "on_change", phase |-> "parse", rope |-> <<>>, version |-> Some(1),
     parsed |-> [ast |-> None, parse_errors |-> <<>>], i |-> 0, diagnostics |-> <<>>,
     semantic_errors |-> 0]

InitDiagnose ==
    /\ ServerIdle
    /\ hover_offset_cache = <<>>
    /\ lru = LruIdle
    /\ fresh = FreshIdle
    /\ AnalyzeIdle
    /\ \E rope \in DiagnoseTexts : eval = [DiagnoseIdle EXCEPT !.rope = rope]

DiagnoseFrame ==
    UNCHANGED <<task_states, task_heap, tasks, blocked, text_epoch, origin,
                hover_offset_cache, lru, fresh, an>>

\* on_change: the document is stored and the text parsed.
DiagnoseParse ==
    /\ eval.phase = "parse"
    /\ documents' = [documents EXCEPT
                        ![DiagnoseDoc] = Some(DocumentSnapshot(eval.rope, eval.version))]
    /\ eval' = [eval EXCEPT !.parsed = parse(eval.rope), !.i = 1,
                            !.phase = IF parse(eval.rope).parse_errors = <<>>
                                      THEN "analyze" ELSE "collect"]
    /\ UNCHANGED <<analysis_map, published>>
    /\ DiagnoseFrame

\* on_change: one iteration of the loop over parse_errors.
DiagnoseCollect ==
    /\ eval.phase = "collect"
    /\ eval' = [eval EXCEPT
                  !.diagnostics =
                      @ \o parse_error_to_diagnostic(eval.parsed.parse_errors[eval.i],
                                                     eval.rope),
                  !.i = @ + 1,
                  !.phase = IF eval.i = Len(eval.parsed.parse_errors)
                            THEN "analyze" ELSE "collect"]
    /\ UNCHANGED <<documents, analysis_map, published>>
    /\ DiagnoseFrame

\* on_change: the semantic analysis and the stored snapshot.
DiagnoseAnalyze ==
    /\ eval.phase = "analyze"
    /\ LET store(built) ==
               /\ analysis_map' = [analysis_map EXCEPT ![DiagnoseDoc] = built.snapshot]
               /\ eval' = [eval EXCEPT
                             !.diagnostics = built.diagnostics,
                             !.semantic_errors =
                                 IF IsSome(built.snapshot)
                                    /\ IsNone(Unwrap(built.snapshot).semantic)
                                 THEN 1 ELSE 0,
                             !.phase = "publish"]
       IN store(on_change_analyzed(eval.parsed, eval.diagnostics, eval.rope,
                                   eval.version))
    /\ UNCHANGED <<documents, published>>
    /\ DiagnoseFrame

\* on_change: publish_diagnostics.
DiagnosePublish ==
    /\ eval.phase = "publish"
    /\ published' = [published EXCEPT
                        ![DiagnoseDoc] = Some([diagnostics |-> eval.diagnostics,
                                               version |-> eval.version])]
    /\ eval' = [eval EXCEPT !.phase = "done"]
    /\ UNCHANGED <<documents, analysis_map>>
    /\ DiagnoseFrame

NextDiagnose == DiagnoseParse \/ DiagnoseCollect \/ DiagnoseAnalyze \/ DiagnosePublish

SpecDiagnose == InitDiagnose /\ [][NextDiagnose]_vars

\* The loop publishes what on_change publishes.
DiagnoseStepwiseAgrees ==
    eval.phase = "done" =>
        /\ Unwrap(published[DiagnoseDoc]).diagnostics
              = on_change_analysis(eval.rope, eval.version).diagnostics
        /\ analysis_map[DiagnoseDoc] = on_change_analysis(eval.rope, eval.version).snapshot

\* C22: once the diagnostics of an edit are published, there is one
\* diagnostic for every lexical, parse and semantic error collected, and
\* the diagnostic of an error whose span has no position in the text has
\* the default range.
C22_EveryErrorPublished ==
    eval.phase = "done" =>
        Len(Unwrap(published[DiagnoseDoc]).diagnostics)
            = Len(eval.parsed.parse_errors) + eval.semantic_errors


(***************************************************************************)
(* hover.rs: the Markdown sections of a hover, and the hover and           *)
(* goto_definition handlers.  A section is [kind, text]; the renderings    *)
(* of type_display.rs and the static documentation of type_docs.rs are     *)
(* named, not spelled out.                                                 *)
(***************************************************************************)
Char_ellipsis == "U+2026"

CodeBlock(snippet) == [kind |-> "code", text |-> snippet]
TextSection(text) == [kind |-> "text", text |-> text]
RuleSection == [kind |-> "rule", text |-> <<>>]

\* markdown::push_docs_section
push_docs_section(sections, docs) ==
    IF IsSome(docs) THEN sections \o <<RuleSection, TextSection(Unwrap(docs))>>
    ELSE sections

\* markdown::push_snippet_with_docs
push_snippet_with_docs(sections, snippet, docs) ==
    push_docs_section(Append(sections, CodeBlock(snippet)), docs)

\* The first line of a trimmed text, marked when more lines follow.
snippet_first_line(trimmed) ==
    LET breaks == {i \in 1..Len(trimmed) : trimmed[i] = "\n"}
    IN IF breaks = {} THEN trimmed
       ELSE trim_end(SubSeq(trimmed, 1, (CHOOSE i \in breaks : \A j \in breaks : i <= j) - 1))
               \o <<" ", Char_ellipsis>>

snippet_of_trimmed(trimmed) ==
    IF trimmed = <<>> THEN None ELSE Some(snippet_first_line(trimmed))

\* A snippet that keeps the whole text of the span.
snippet_from_span_whole(rope, span) ==
    IF span.start >= span.end THEN None
    ELSE Some(SubSeq(rope, span.start + 1, span.end))

\* A snippet that is the first character of the span.
snippet_from_span_first_char(rope, span) ==
    IF span.start >= span.end THEN None
    ELSE Some(SubSeq(rope, span.start + 1, span.start + 1))

snippet_from_span(rope, span) ==
    IF span.start >= span.end THEN None
    ELSE snippet_of_trimmed(trim_start(trim_end(SubSeq(rope, span.start + 1, span.end))))

\* HoverContext::has_inline_doc
has_inline_doc(info) == IsSome(info.primitive) \/ IsSome(info.keyword)

\* HoverContext::type_doc: the slot of a declared type holds its rendered
\* declaration, the slot of an import holds nothing.
type_doc(semantic, info) ==
    IF IsNone(info.symbol_id) THEN None
    ELSE LET name == VecGet(semantic.symbol_ident_names, Unwrap(info.symbol_id))
         IN IF IsNone(name) \/ IsNone(Unwrap(name)) THEN None
            ELSE Some([definition |-> <<[rendered |-> "binding",
                                         id |-> Unwrap(Unwrap(name))]>>,
                       docs |-> None])

HoverSubject(tag, parent, snippet, docs) ==
    [tag |-> tag, parent |-> parent, snippet |-> snippet, docs |-> docs]

\* HoverBuilder::extract_subject.  The sample texts carry no doc comments
\* and their service has no name: docs and parent are None.
extract_subject(rope, semantic, info) ==
    IF IsSome(info.param) /\ IsSome(snippet_from_span(rope, Unwrap(info.param).span))
    THEN HoverSubject("Param", None,
                      Unwrap(snippet_from_span(rope, Unwrap(info.param).span)), None)
    ELSE IF IsSome(info.service_method)
            /\ IsSome(snippet_from_span(rope, Unwrap(info.service_method).span))
    THEN HoverSubject("Method", None,
                      Unwrap(snippet_from_span(rope, Unwrap(info.service_method).span)),
                      None)
    ELSE IF IsSome(info.actor) /\ IsSome(semantic.actor)
    THEN HoverSubject("Actor", None, <<[rendered |-> "actor", id |-> ""]>>, None)
    ELSE IF IsSome(info.field) /\ IsSome(snippet_from_span(rope, Unwrap(info.field).span))
    THEN HoverSubject("Field", None,
                      Unwrap(snippet_from_span(rope, Unwrap(info.field).span)), None)
    ELSE IF IsSome(type_doc(semantic, info))
    THEN HoverSubject("TypeDoc", None, Unwrap(type_doc(semantic, info)).definition,
                      Unwrap(type_doc(semantic, info)).docs)
    ELSE IF IsSome(snippet_from_span(rope, info.ident_span))
    THEN HoverSubject("Ident", None, Unwrap(snippet_from_span(rope, info.ident_span)), None)
    ELSE HoverSubject("None", None, <<>>, None)

\* The sections pushed for a subject.
subject_sections(subject) ==
    CASE subject.tag \in {"Param", "Ident"} -> <<CodeBlock(subject.snippet)>>
      [] subject.tag \in {"Method", "Field"} ->
            push_snippet_with_docs(IF IsSome(subject.parent)
                                   THEN <<CodeBlock(Unwrap(subject.parent))>> ELSE <<>>,
                                   subject.snippet, subject.docs)
      [] subject.tag \in {"Actor", "TypeDoc"} ->
            push_snippet_with_docs(<<>>, subject.snippet, subject.docs)
      [] OTHER -> <<>>

\* collect_subject_sections without the early return for inline
\* documentation.
collect_subject_sections_always(rope, semantic, info) ==
    subject_sections(extract_subject(rope, semantic, info))

\* HoverBuilder::collect_subject_sections
collect_subject_sections(rope, semantic, info) ==
    IF has_inline_doc(info) THEN <<>>
    ELSE subject_sections(extract_subject(rope, semantic, info))

\* HoverBuilder::collect_reference_sections
collect_reference_sections(sections, semantic, info) ==
    sections
      \o (IF IsSome(info.primitive)
          THEN <<TextSection(<<[doc |-> "primitive", of |-> Unwrap(info.primitive)]>>)>>
          ELSE <<>>)
      \o (IF IsSome(info.keyword)
          THEN <<TextSection(<<[doc |-> "keyword", of |-> Unwrap(info.keyword)]>>)>>
          ELSE <<>>)
      \o (IF IsSome(info.symbol_id)
             /\ IsSome(find_import(semantic.table.imports, Unwrap(info.symbol_id)))
          THEN <<TextSection(<<[doc |-> "import", of |-> Unwrap(info.symbol_id)]>>)>>
          ELSE <<>>)

\* HoverBuilder::collect_definition_fallback
collect_definition_fallback(sections, rope, info) ==
    IF IsSome(info.definition_span) /\ sections = <<>>
       /\ Unwrap(info.definition_span) # info.ident_span
       /\ IsSome(snippet_from_span(rope, Unwrap(info.definition_span)))
    THEN <<TextSection(<<"Definition">>
                         \o Unwrap(snippet_from_span(rope, Unwrap(info.definition_span))))>>
    ELSE sections

\* MarkdownWriter::finish
finish(sections) == IF sections = <<>> THEN None ELSE Some(sections)

\* hover_contents: HoverBuilder::render
hover_contents(rope, semantic, info) ==
    finish(collect_definition_fallback(
              collect_reference_sections(collect_subject_sections(rope, semantic, info),
                                         semantic, info),
              rope, info))

Ok(value) == [tag |-> "Ok", value |-> value]

\* hover, from the identifier found: the response.
hover_found(rope, semantic, info) ==
    IF IsNone(info) \/ IsNone(span_to_range(Unwrap(info).ident_span, rope))
       \/ IsNone(hover_contents(rope, semantic, Unwrap(info)))
    THEN None
    ELSE Some([contents |-> Unwrap(hover_contents(rope, semantic, Unwrap(info))),
               range |-> span_to_range(Unwrap(info).ident_span, rope)])

\* goto_definition, from the identifier found: the response.
goto_definition_found(uri, rope, info) ==
    IF IsNone(info) \/ IsNone(Unwrap(info).definition_span)
       \/ IsNone(span_to_range(Unwrap(Unwrap(info).definition_span), rope))
    THEN None
    ELSE Some([uri |-> uri,
               range |-> Unwrap(span_to_range(Unwrap(Unwrap(info).definition_span), rope))])

\* The two handlers from the offset on: [cache, response].
answer_at(request, uri, rope, semantic, found) ==
    [cache |-> found.cache,
     response |->
        Ok(IF IsNone(found.result) THEN None
           ELSE IF request = "hover"
           THEN hover_found(rope, semantic, lookup_identifier(semantic, Unwrap(found.result)))
           ELSE goto_definition_found(uri, rope,
                                     lookup_identifier(semantic, Unwrap(found.result))))]

\* hover::hover and goto_definition on the stored document and analysis:
\* [cache, response].
answer(request, entries, analysis, document, uri, position) ==
    IF IsNone(analysis) \/ IsNone(document) \/ IsNone(Unwrap(analysis).semantic)
    THEN [cache |-> entries, response |-> Ok(None)]
    ELSE answer_at(request, uri, Unwrap(document).rope, Unwrap(Unwrap(analysis).semantic),
                   cached_position_to_offset(entries, uri, position, Unwrap(document).rope,
                                             Unwrap(document).version))


(***************************************************************************)
(* SpecHover: a document is opened (and opened again with another text),   *)
(* and hover and goto_definition requests are answered.                    *)
(***************************************************************************)
MaxOpens == 2
MaxAnswers == 2

HoverDoc == "a.did"

HoverTexts ==
    {Text_record_actor, Text_forward, Text_undefined, Text_broken, Text_method_lines}

HoverLines == 0..2
HoverColumns == {0, 5, 6, 7, 9, 12, 25}

HoverIdle ==
    [fn |-> "none", position |-> Position(0, 0), response |-> Ok(None),
     opens |-> 0, answers |-> 0]

InitHover ==
    /\ ServerIdle
    /\ hover_offset_cache = <<>>
    /\ lru = LruIdle
    /\ fresh = FreshIdle
    /\ AnalyzeIdle
    /\ eval = HoverIdle

HoverFrame ==
    UNCHANGED <<task_states, task_heap, tasks, blocked, text_epoch, origin, lru, fresh, an>>

\* did_open: on_change stores the document, invalidates the offsets cached
\* for it, stores or removes the analysis and publishes the diagnostics.
HoverDidOpen ==
    /\ eval.opens < MaxOpens
    /\ \E rope \in HoverTexts :
          LET stored(built) ==
                  /\ analysis_map' = [analysis_map EXCEPT ![HoverDoc] = built.snapshot]
                  /\ published' = [published EXCEPT
                                     ![HoverDoc] = Some([diagnostics |-> built.diagnostics,
                                                         version |-> Some(1)])]
          IN /\ documents' = [documents EXCEPT
                                ![HoverDoc] = Some(DocumentSnapshot(rope, Some(1)))]
             /\ hover_offset_cache' = invalidate_uri(hover_offset_cache, HoverDoc)
             /\ stored(on_change_analysis(rope, Some(1)))
    /\ eval' = [eval EXCEPT !.fn = "did_open", !.opens = @ + 1]
    /\ HoverFrame

HoverAnswered(request, position, answered) ==
    /\ hover_offset_cache' = answered.cache
    /\ eval' = [eval EXCEPT !.fn = request, !.position = position,
                            !.response = answered.response, !.answers = @ + 1]
    /\ UNCHANGED <<documents, analysis_map, published>>
    /\ HoverFrame

\* hover(params)
HoverRequest ==
    /\ eval.answers < MaxAnswers
    /\ \E line \in HoverLines : \E character \in HoverColumns :
          HoverAnswered("hover", Position(line, character),
                        answer("hover", hover_offset_cache, analysis_map[HoverDoc],
                               documents[HoverDoc], HoverDoc, Position(line, character)))

\* goto_definition(params)
GotoDefinitionRequest ==
    /\ eval.answers < MaxAnswers
    /\ \E line \in HoverLines : \E character \in HoverColumns :
          HoverAnswered("goto_definition", Position(line, character),
                        answer("goto_definition", hover_offset_cache,
                               analysis_map[HoverDoc], documents[HoverDoc], HoverDoc,
                               Position(line, character)))

NextHover == HoverDidOpen \/ HoverRequest \/ GotoDefinitionRequest

SpecHover == InitHover /\ [][NextHover]_vars

HoverAsked == eval.fn \in {"hover", "goto_definition"}

\* The stored Semantic of the document, if any.
HoverSemantic ==
    IF IsSome(analysis_map[HoverDoc]) THEN Unwrap(analysis_map[HoverDoc]).semantic ELSE None

\* The offset of the asked position in the stored text, if any.
HoverOffset ==
    IF IsSome(documents[HoverDoc])
    THEN position_to_offset(eval.position, Unwrap(documents[HoverDoc]).rope)
    ELSE None

\* No span of the identifier index contains the offset.
NoSpanContains(semantic, offset) ==
    \A i \in DOMAIN semantic.ident_range :
        ~(semantic.ident_range[i].start <= offset /\ offset < semantic.ident_range[i].stop)

\* C23: lookup_identifier returns none when no indexed span contains the
\* offset, and hover and goto_definition then answer with an empty result,
\* never an error; they also answer with an empty result when the document
\* has no analysis snapshot, the snapshot has no Semantic, or the position
\* lies outside the text.
C23_NothingFoundAnswersEmpty ==
    HoverAsked =>
        /\ eval.response.tag = "Ok"
        /\ (IsNone(HoverSemantic) \/ IsNone(HoverOffset)) => eval.response.value = None
        /\ (IsSome(HoverSemantic) /\ IsSome(HoverOffset)
            /\ NoSpanContains(Unwrap(HoverSemantic), Unwrap(HoverOffset))) =>
                /\ lookup_identifier(Unwrap(HoverSemantic), Unwrap(HoverOffset)) = None
                /\ eval.response.value = None

\* A request at an offset of the analysed text that no indexed span
\* contains has been answered with an empty result.
C23_Witness ==
    /\ HoverAsked
    /\ eval.response = Ok(None)
    /\ IsSome(HoverSemantic)
    /\ IsSome(HoverOffset)
    /\ NoSpanContains(Unwrap(HoverSemantic), Unwrap(HoverOffset))


(***************************************************************************)
(* SpecScopes: ScopeBindingIndex::bindings_at on the analysis of one       *)
(* declaration "type A=<record>;" whose record nests records.              *)
(***************************************************************************)
MaxScopeFields == 2

ScopeLabels == {"f", "g"}

ScopeLeaf == [k |-> "var", fields |-> <<>>]

ScopeRecords(types) ==
    {[k |-> "record", fields |-> fields] :
        fields \in UNION {[1..n -> [label : ScopeLabels, typ : types]] :
                             n \in 0..MaxScopeFields}}

\* Records of variables and of records of variables.
ScopeTrees == ScopeRecords({ScopeLeaf} \cup ScopeRecords({ScopeLeaf}))

RECURSIVE ScopeTypeText(_)
RECURSIVE ScopeFieldsText(_)
ScopeTypeText(t) ==
    IF t.k = "var" THEN <<"A">>
    ELSE Chars_kw_record \o <<"{">> \o ScopeFieldsText(t.fields) \o <<"}">>

ScopeFieldsText(fields) ==
    IF fields = <<>> THEN <<>>
    ELSE <<Head(fields).label, ":">> \o ScopeTypeText(Head(fields).typ)
            \o (IF Len(fields) > 1 THEN <<";">> ELSE <<>>)
            \o ScopeFieldsText(Tail(fields))

\* The syntax tree of the type whose text starts at base.
RECURSIVE ScopeTypeNode(_, _)
RECURSIVE ScopeFieldNodes(_, _)
ScopeTypeNode(t, base) ==
    IF t.k = "var" THEN VarT("A", Span(base, base + 1))
    ELSE RecordT(ScopeFieldNodes(t.fields, base + 7),
                 Span(base, base + Len(ScopeTypeText(t))))

ScopeFieldNodes(fields, base) ==
    IF fields = <<>> THEN <<>>
    ELSE LET end == base + 2 + Len(ScopeTypeText(Head(fields).typ))
         IN <<TypeField(Head(fields).label, ScopeTypeNode(Head(fields).typ, base + 2),
                        Span(base, end))>>
               \o ScopeFieldNodes(Tail(fields), end + 1)

ScopeRope(t) == Chars_type \o <<"A", "=">> \o ScopeTypeText(t) \o <<";">>

ScopeAst(t) ==
    IDLProg(<<TypD(Binding("A", ScopeTypeNode(t, 7),
                           Span(0, 7 + Len(ScopeTypeText(t)))))>>, None)

\* completion.rs span_len
span_len(span) == IF span.end >= span.start THEN span.end - span.start ELSE 0

\* The order of the index's keys (start, end).
ScopeKeyLeq(a, b) == a.start < b.start \/ (a.start = b.start /\ a.end <= b.end)

\* ScopeBindingIndex::bindings_at: of the scopes that contain the offset,
\* the first of the shortest ones in key order.
bindings_at(index, offset) ==
    LET containing == {scope \in DOMAIN index : span_contains(scope, offset)}
    IN IF containing = {} THEN None
       ELSE Some(index[CHOOSE s \in containing :
                          \A o \in containing :
                              \/ span_len(s) < span_len(o)
                              \/ span_len(s) = span_len(o) /\ ScopeKeyLeq(s, o)])

ScopesIdle ==
    [fn |-> "none", tree |-> ScopeLeaf, semantic |-> None, index |-> None,
     offset |-> 0, result |-> None]

InitScopes ==
    /\ ServerIdle
    /\ hover_offset_cache = <<>>
    /\ lru = LruIdle
    /\ fresh = FreshIdle
    /\ AnalyzeIdle
    /\ \E t \in ScopeTrees : eval = [ScopesIdle EXCEPT !.tree = t]

\* analyze_program and ScopeBindingIndex::from_semantic
ScopesBuild ==
    /\ eval.fn = "none"
    /\ LET built(analyzed) ==
               /\ IsSome(analyzed.semantic)
               /\ eval' = [eval EXCEPT
                             !.fn = "from_semantic",
                             !.semantic = analyzed.semantic,
                             !.index = ScopeBindingIndex_from_semantic(
                                          Unwrap(analyzed.semantic))]
       IN built(analyze_program(ScopeAst(eval.tree), ScopeRope(eval.tree)))
    /\ EvalUnchanged

\* index.bindings_at(offset)
ScopesBindingsAt ==
    /\ eval.fn # "none"
    /\ IsSome(eval.index)
    /\ \E offset \in 0..Len(ScopeRope(eval.tree)) :
          eval' = [eval EXCEPT !.fn = "bindings_at", !.offset = offset,
                               !.result = bindings_at(Unwrap(eval.index), offset)]
    /\ EvalUnchanged

NextScopes == ScopesBuild \/ ScopesBindingsAt

SpecScopes == InitScopes /\ [][NextScopes]_vars

\* The record types of the declaration, outermost first, that contain the
\* offset.
ScopeRecordsAt(offset) ==
    LET top == ScopeAst(eval.tree).decs[1].binding.typ
        inner == SelectSeq(top.fields,
                           LAMBDA field : field.typ.kind = "RecordT"
                                          /\ span_contains(field.typ.span, offset))
    IN IF ~span_contains(top.span, offset) THEN <<>>
       ELSE <<top>> \o [i \in 1..Len(inner) |-> inner[i].typ]

NamesOf(locals) == [i \in DOMAIN locals |-> locals[i].name]

LabelsOf(record) == [i \in DOMAIN record.fields |-> record.fields[i].label]

\* C24: bindings_at returns none when no scope contains the offset, and
\* inside a record nested in another record exactly the labels of the inner
\* record.
C24_InnermostRecordBindings ==
    eval.fn = "bindings_at" =>
        LET records == ScopeRecordsAt(eval.offset)
        IN /\ records = <<>> => eval.result = None
           /\ Len(records) = 2 =>
                 /\ IsSome(eval.result)
                 /\ NamesOf(Unwrap(eval.result)) = LabelsOf(records[2])


\* The identifier a hover request found, if it got that far.
HoverInfo ==
    IF eval.fn = "hover" /\ IsSome(HoverSemantic) /\ IsSome(HoverOffset)
    THEN lookup_identifier(Unwrap(HoverSemantic), Unwrap(HoverOffset))
    ELSE None

HoverRope == Unwrap(documents[HoverDoc]).rope

HoverSections == Unwrap(eval.response.value).contents

\* part occurs in text.
Contains(text, part) ==
    \E i \in 1..(Len(text) - Len(part) + 1) : SubSeq(text, i, i + Len(part) - 1) = part

\* The static documentation of the keyword or primitive found.
StaticDoc(info) ==
    IF IsSome(info.primitive)
    THEN TextSection(<<[doc |-> "primitive", of |-> Unwrap(info.primitive)]>>)
    ELSE TextSection(<<[doc |-> "keyword", of |-> Unwrap(info.keyword)]>>)

HoverOnInlineDoc ==
    IsSome(HoverInfo)
    /\ (IsSome(Unwrap(HoverInfo).keyword) \/ IsSome(Unwrap(HoverInfo).primitive))

HoverOnMethod == IsSome(HoverInfo) /\ IsSome(Unwrap(HoverInfo).service_method)

\* The text of the method's declaration and of its signature.
MethodText ==
    SubSeq(HoverRope, Unwrap(Unwrap(HoverInfo).service_method).span.start + 1,
           Unwrap(Unwrap(HoverInfo).service_method).span.end)

MethodSignature ==
    SubSeq(HoverRope,
           Unwrap(Unwrap(Unwrap(HoverInfo).service_method).type_span).start + 1,
           Unwrap(Unwrap(Unwrap(HoverInfo).service_method).type_span).end)

\* The text before the first line break, if any.
FirstLine(text) ==
    SubSeq(text, 1, CHOOSE n \in 0..Len(text) :
                        /\ \A i \in 1..n : text[i] # "\n"
                        /\ (n = Len(text) \/ text[n + 1] = "\n"))

\* C25 as stated: a hover over a keyword or primitive consists of the
\* static documentation alone, and a hover over a service method name has
\* a code section that contains the method's signature.
C25_MethodSnippetHasSignature ==
    /\ HoverOnInlineDoc =>
          /\ IsSome(eval.response.value)
          /\ HoverSections = <<StaticDoc(Unwrap(HoverInfo))>>
    /\ HoverOnMethod =>
          /\ IsSome(eval.response.value)
          /\ \E i \in DOMAIN HoverSections :
                /\ HoverSections[i].kind = "code"
                /\ Contains(HoverSections[i].text, MethodSignature)

\* C25: a hover over a keyword or primitive consists of the static
\* documentation alone; a hover over a service method name has a code
\* section with the first line of the method's declaration, which contains
\* the whole signature when the declaration has no line break and is
\* followed by an ellipsis when it has one.
C25_MethodSnippetIsFirstLine ==
    /\ HoverOnInlineDoc =>
          /\ IsSome(eval.response.value)
          /\ HoverSections = <<StaticDoc(Unwrap(HoverInfo))>>
    /\ HoverOnMethod =>
          /\ IsSome(eval.response.value)
          /\ \E i \in DOMAIN HoverSections :
                /\ HoverSections[i].kind = "code"
                /\ IF FirstLine(MethodText) = MethodText
                   THEN /\ HoverSections[i].text = MethodText
                        /\ Contains(HoverSections[i].text, MethodSignature)
                   ELSE HoverSections[i].text
                           = trim_end(FirstLine(MethodText)) \o <<" ", Char_ellipsis>>

\* A hover over the name of a method whose declaration continues on a
\* second line has been answered.
C25_Witness ==
    /\ HoverOnMethod
    /\ FirstLine(MethodText) # MethodText
    /\ IsSome(eval.response.value)


(***************************************************************************)
(* format.rs, and SpecFormat: edits of one document, handled from await to *)
(* await, configuration changes and formatting requests.                   *)
(***************************************************************************)
TextEdit(range, new_text) == [range |-> range, new_text |-> new_text]

\* format_program_with_options: one edit over the range from the start of
\* the text to the end of its last line; the new text is named, not
\* spelled out.
format_program_with_options(ast, rope) ==
    Some(<<TextEdit(Range(Position(0, 0),
                          Position(len_lines(rope) - 1,
                                   line_len_chars(rope, len_lines(rope) - 1))),
                    [rendered |-> "pretty_print", of |-> ast])>>)

\* A handler that does not look at the parse errors of the snapshot.
format_despite_parse_errors(format_enabled, analysis, document) ==
    Ok(IF format_enabled /\ IsSome(analysis) /\ IsSome(Unwrap(analysis).ast)
          /\ IsSome(document)
       THEN format_program_with_options(Unwrap(Unwrap(analysis).ast), Unwrap(document).rope)
       ELSE None)

\* format::format on the configuration, the stored analysis and document.
format(format_enabled, analysis, document) ==
    Ok(IF format_enabled /\ IsSome(analysis) /\ Unwrap(analysis).parse_errors = 0
          /\ IsSome(Unwrap(analysis).ast) /\ IsSome(document)
       THEN format_program_with_options(Unwrap(Unwrap(analysis).ast), Unwrap(document).rope)
       ELSE None)

MaxEdits == 2
MaxFormats == 2

FormatDoc == "a.did"

FormatTexts ==
    {<<>>, Text_forward, Text_undefined, Text_broken, Text_forward \o <<";">>}

\* edit: the on_change in progress, if any, with the place it has reached.
FormatIdle ==
    [fn |-> "none", format_enabled |-> TRUE, edit |-> None, edits |-> 0, formats |-> 0,
     response |-> Ok(None)]

InitFormat ==
    /\ ServerIdle
    /\ hover_offset_cache = <<>>
    /\ lru = LruIdle
    /\ fresh = FreshIdle
    /\ AnalyzeIdle
    /\ eval = FormatIdle

FormatFrame ==
    UNCHANGED <<task_states, task_heap, tasks, blocked, text_epoch, origin, lru, fresh, an>>

\* on_change up to the await after the parse: the document is stored and
\* its cached offsets are dropped.
FormatEditStore ==
    /\ IsNone(eval.edit)
    /\ eval.edits < MaxEdits
    /\ \E rope \in FormatTexts :
          /\ documents' = [documents EXCEPT
                             ![FormatDoc] =
                                 Some(DocumentSnapshot(rope, Some(eval.edits + 1)))]
          /\ eval' = [eval EXCEPT
                        !.fn = "on_change", !.edits = @ + 1,
                        !.edit = Some([rope |-> rope, version |-> Some(eval.edits + 1),
                                       diagnostics |-> <<>>, pc |-> "analysis"])]
    /\ hover_offset_cache' = invalidate_uri(hover_offset_cache, FormatDoc)
    /\ UNCHANGED <<analysis_map, published>>
    /\ FormatFrame

\* on_change from the parse to the stored or removed analysis.
FormatEditAnalyze ==
    /\ IsSome(eval.edit)
    /\ Unwrap(eval.edit).pc = "analysis"
    /\ LET store(built) ==
               /\ analysis_map' = [analysis_map EXCEPT ![FormatDoc] = built.snapshot]
               /\ eval' = [eval EXCEPT
                             !.fn = "on_change",
                             !.edit = Some([Unwrap(eval.edit) EXCEPT
                                              !.diagnostics = built.diagnostics,
                                              !.pc = "publish"])]
       IN store(on_change_analysis(Unwrap(eval.edit).rope, Unwrap(eval.edit).version))
    /\ UNCHANGED <<documents, published, hover_offset_cache>>
    /\ FormatFrame

\* on_change: publish_diagnostics.
FormatEditPublish ==
    /\ IsSome(eval.edit)
    /\ Unwrap(eval.edit).pc = "publish"
    /\ published' = [published EXCEPT
                        ![FormatDoc] = Some([diagnostics |-> Unwrap(eval.edit).diagnostics,
                                             version |-> Unwrap(eval.edit).version])]
    /\ eval' = [eval EXCEPT !.fn = "on_change", !.edit = None]
    /\ UNCHANGED <<documents, analysis_map, hover_offset_cache>>
    /\ FormatFrame

\* did_change_configuration setting format.enabled
FormatConfigure ==
    /\ \E enabled \in BOOLEAN :
          /\ enabled # eval.format_enabled
          /\ eval' = [eval EXCEPT !.fn = "did_change_configuration",
                                  !.format_enabled = enabled]
    /\ UNCHANGED <<documents, analysis_map, published, hover_offset_cache>>
    /\ FormatFrame

\* formatting(params)
FormatRequest ==
    /\ eval.formats < MaxFormats
    /\ eval' = [eval EXCEPT
                  !.fn = "formatting", !.formats = @ + 1,
                  !.response = format(eval.format_enabled, analysis_map[FormatDoc],
                                      documents[FormatDoc])]
    /\ UNCHANGED <<documents, analysis_map, published, hover_offset_cache>>
    /\ FormatFrame

NextFormat ==
    \/ FormatEditStore
    \/ FormatEditAnalyze
    \/ FormatEditPublish
    \/ FormatConfigure
    \/ FormatRequest

SpecFormat == InitFormat /\ [][NextFormat]_vars

\* No edits are due: formatting is disabled, the document has no analysis
\* snapshot, or the parse the snapshot comes from reported errors (a
\* snapshot always has a syntax tree).
FormatRefused ==
    \/ ~eval.format_enabled
    \/ IsNone(analysis_map[FormatDoc])
    \/ IsNone(Unwrap(analysis_map[FormatDoc]).ast)
    \/ Unwrap(analysis_map[FormatDoc]).parse_errors > 0

\* C26: the format handler returns no edits when formatting is disabled,
\* the document has no analysis snapshot or no syntax tree, or the parse
\* behind the snapshot reported errors; otherwise it returns exactly one
\* edit, whose range starts at the start of the stored document and ends at
\* its end.
C26_OneWholeDocumentEdit ==
    eval.fn = "formatting" =>
        /\ eval.response.tag = "Ok"
        /\ IF FormatRefused THEN eval.response.value = None
           ELSE /\ IsSome(eval.response.value)
                /\ Len(Unwrap(eval.response.value)) = 1
                /\ Unwrap(eval.response.value)[1].range.start = Position(0, 0)
                /\ Some(Unwrap(eval.response.value)[1].range.end)
                      = offset_to_position(Len(Unwrap(documents[FormatDoc]).rope),
                                           Unwrap(documents[FormatDoc]).rope)

\* A formatting request has been answered with an edit while the stored
\* text is not the text the snapshot was built from.
C26_Witness ==
    /\ eval.fn = "formatting"
    /\ IsSome(eval.response.value)
    /\ IsSome(eval.edit)
    /\ Unwrap(eval.edit).pc = "analysis"
    /\ Unwrap(documents[FormatDoc]).rope # <<>>


(***************************************************************************)
(* SpecChanges: one document, did_change notifications with one or two     *)
(* ranged content changes, and position queries; every handler runs from   *)
(* start to end.  eval.resolved lists the offsets the last handler asked   *)
(* cached_position_to_offset for, with the rope each was asked on.         *)
(***************************************************************************)
MaxChangeRopeLen == 2
MaxChangeLine == 1
MaxChangeColumn == 2
MaxChangeEdits == 2
MaxChangeQueries == 1

ChangesDoc == "a.did"

ChangeRopes == {rope \in PositionRopes : Len(rope) <= MaxChangeRopeLen}

ChangePositions ==
    {Position(line, character) : line \in 0..MaxChangeLine, character \in 0..MaxChangeColumn}

PositionLeq(a, b) == a.line < b.line \/ (a.line = b.line /\ a.character <= b.character)

RangedChanges ==
    {ContentChange(Some(Range(range[1], range[2])), text) :
        range \in {r \in ChangePositions \X ChangePositions : PositionLeq(r[1], r[2])},
        text \in {<<>>, <<"a">>}}

ChangeListsOfTwo ==
    {<<change>> : change \in {c \in RangedChanges : c.text = <<"a">>}}
        \cup {<<first, second>> :
                 first \in {c \in RangedChanges : c.text = <<>>},
                 second \in {c \in RangedChanges :
                                c.text = <<"a">>
                                /\ Unwrap(c.range).start = Unwrap(c.range).end}}

Resolution(position, rope, found) ==
    [position |-> position, rope |-> rope, cached |-> found.result,
     pure |-> position_to_offset(position, rope)]

\* The two lookups of one ranged change: range.start, then range.end with
\* the cache the first lookup left.
change_resolutions(change, rope, entries, uri, current_version) ==
    <<Resolution(Unwrap(change.range).start, rope,
                 cached_position_to_offset(entries, uri, Unwrap(change.range).start, rope,
                                           current_version)),
      Resolution(Unwrap(change.range).end, rope,
                 cached_position_to_offset(
                     cached_position_to_offset(entries, uri, Unwrap(change.range).start,
                                               rope, current_version).cache,
                     uri, Unwrap(change.range).end, rope, current_version))>>

\* The lookups of a list of ranged changes, in order.
RECURSIVE changes_resolutions(_, _, _, _, _)
changes_resolutions(content_changes, rope, entries, uri, current_version) ==
    IF content_changes = <<>> THEN <<>>
    ELSE change_resolutions(Head(content_changes), rope, entries, uri, current_version)
            \o changes_resolutions(
                   Tail(content_changes),
                   apply_change(Head(content_changes), rope, entries, uri,
                                current_version).rope,
                   apply_change(Head(content_changes), rope, entries, uri,
                                current_version).cache,
                   uri, current_version)

ChangesIdle ==
    [fn |-> "none", edits |-> 0, queries |-> 0, changes |-> <<>>, resolved |-> <<>>]

InitChanges ==
    /\ \E rope \in ChangeRopes :
          LET opened(built) ==
                  /\ documents = [d \in Docs |->
                                     IF d = ChangesDoc
                                     THEN Some(DocumentSnapshot(rope, Some(1))) ELSE None]
                  /\ analysis_map = [d \in Docs |->
                                        IF d = ChangesDoc THEN built.snapshot ELSE None]
                  /\ published = [d \in Docs |->
                                     IF d = ChangesDoc
                                     THEN Some([diagnostics |-> built.diagnostics,
                                                version |-> Some(1)])
                                     ELSE None]
          IN opened(on_change_analysis(rope, Some(1)))
    /\ task_states = [d \in Docs |-> None]
    /\ task_heap = <<>>
    /\ tasks = <<>>
    /\ blocked = FALSE
    /\ text_epoch = [d \in Docs |-> 0]
    /\ origin = EmptyMap
    /\ hover_offset_cache = <<>>
    /\ lru = LruIdle
    /\ fresh = FreshIdle
    /\ AnalyzeIdle
    /\ eval = ChangesIdle

ChangesFrame ==
    UNCHANGED <<task_states, task_heap, tasks, blocked, text_epoch, origin, lru, fresh, an>>

\* did_change: the changes are applied to the stored rope, and on_change
\* stores the result, drops the document's cached offsets, stores the
\* analysis and publishes the diagnostics.
ChangesDidChange ==
    /\ eval.edits < MaxChangeEdits
    /\ \E content_changes \in ChangeListsOfTwo :
          LET doc == Unwrap(documents[ChangesDoc])
              version == Some(Unwrap(doc.version) + 1)
              stored(applied, built) ==
                  /\ documents' = [documents EXCEPT
                                     ![ChangesDoc] =
                                         Some(DocumentSnapshot(applied.rope, version))]
                  /\ hover_offset_cache' = invalidate_uri(applied.cache, ChangesDoc)
                  /\ analysis_map' = [analysis_map EXCEPT ![ChangesDoc] = built.snapshot]
                  /\ published' = [published EXCEPT
                                     ![ChangesDoc] =
                                         Some([diagnostics |-> built.diagnostics,
                                               version |-> version])]
              changed(applied) ==
                  stored(applied, on_change_analysis(applied.rope, version))
          IN /\ changed(apply_changes(content_changes, doc.rope, hover_offset_cache,
                                      ChangesDoc, doc.version))
             /\ eval' = [eval EXCEPT
                           !.fn = "did_change", !.edits = @ + 1,
                           !.changes = content_changes,
                           !.resolved =
                               changes_resolutions(content_changes, doc.rope,
                                                   hover_offset_cache, ChangesDoc,
                                                   doc.version)]
    /\ ChangesFrame

\* A position query (hover, goto_definition, completion) on the stored
\* document.
ChangesQuery ==
    /\ eval.queries < MaxChangeQueries
    /\ \E position \in ChangePositions :
          LET doc == Unwrap(documents[ChangesDoc])
              asked(found) ==
                  /\ hover_offset_cache' = found.cache
                  /\ eval' = [eval EXCEPT
                                !.fn = "query", !.queries = @ + 1, !.changes = <<>>,
                                !.resolved = <<Resolution(position, doc.rope, found)>>]
          IN asked(cached_position_to_offset(hover_offset_cache, ChangesDoc, position,
                                             doc.rope, doc.version))
    /\ UNCHANGED <<documents, analysis_map, published>>
    /\ ChangesFrame

NextChanges == ChangesDidChange \/ ChangesQuery

SpecChanges == InitChanges /\ [][NextChanges]_vars

\* C27: every offset cached_position_to_offset returned, in a query or for
\* a content change of a did_change, the second one included, is the
\* offset position_to_offset gives on the rope the call was given.
C27_CachedEqualsPure ==
    \A i \in DOMAIN eval.resolved : eval.resolved[i].cached = eval.resolved[i].pure


(***************************************************************************)
(* SpecFair: the server of Spec with every handler future polled again     *)
(* and again: a handler that can take a step is eventually polled.         *)
(***************************************************************************)
TaskStep(t) ==
    \/ OnChangeStoreDocument(t)
    \/ OnChangePublish(t)
    \/ DidClose(t)
    \/ Hover(t)
    \/ GotoDefinition(t)
    \/ CompletionCheckpoint(t)

\* ENABLED <<DidChangeApply(t)>>_vars: the step moves the edit on to
\* on_change.
DidChangeReady(t) == t <= Len(tasks) /\ ~blocked /\ tasks[t].pc = "did_change"

\* ENABLED <<OnChangeStoreAnalysis(t)>>_vars: the step stores the snapshot
\* or blocks, and changes the state either way.
AnalysisReady(t) == t <= Len(tasks) /\ ~blocked /\ tasks[t].pc = "analysis"

\* ENABLED <<CompletionStart(t)>>_vars: the step moves the request to its
\* first checkpoint.
CompletionReady(t) == t <= Len(tasks) /\ ~blocked /\ tasks[t].pc = "completion"

\* Weak fairness of every handler's steps; for the three steps that run an
\* analysis, WF_vars(A) is written out as []<>~ENABLED <<A>>_vars \/
\* []<><<A>>_vars with the state predicate above for ENABLED <<A>>_vars.
SpecFair ==
    /\ Init /\ [][Next]_vars
    /\ \A t \in 1..MaxTasks : WF_vars(t <= Len(tasks) /\ TaskStep(t))
    /\ \A t \in 1..MaxTasks :
          []<>(~DidChangeReady(t)) \/ []<><<DidChangeReady(t) /\ DidChangeApply(t)>>_vars
    /\ \A t \in 1..MaxTasks :
          []<>(~AnalysisReady(t)) \/ []<><<AnalysisReady(t) /\ OnChangeStoreAnalysis(t)>>_vars
    /\ \A t \in 1..MaxTasks :
          []<>(~CompletionReady(t)) \/ []<><<CompletionReady(t) /\ CompletionStart(t)>>_vars

\* Completion request c is suspended at a checkpoint while edit e of the
\* same document has arrived and is not finished.
SuspendedWithEdit(c, e) ==
    /\ c <= Len(tasks) /\ e <= Len(tasks)
    /\ tasks[c].op = "completion"
    /\ tasks[c].pc \in {"checkpoint1", "checkpoint2", "checkpoint3"}
    /\ tasks[e].op \in {"did_open", "did_change", "did_save"}
    /\ tasks[e].uri = tasks[c].uri
    /\ tasks[e].pc # "done"

\* C28: whenever a completion request is suspended at a checkpoint while an
\* edit of the same document is pending, the requests and edits that have
\* arrived all finish.
C28_EditAndCompletionFinish ==
    (\E c \in 1..MaxTasks : \E e \in 1..MaxTasks : SuspendedWithEdit(c, e))
        ~> (\A t \in 1..Len(tasks) : tasks[t].pc = "done")


Checkpoints == {"checkpoint1", "checkpoint2", "checkpoint3"}

\* The counter of token's kind differs from the generation token captured.
GenerationsDiffer(token) == task_heap[token.state][token.kind] # token.generation

\* C29: a step of build_completion_items_async from a checkpoint returns
\* Cancelled, with nothing left to run, when the counter differs from the
\* generation its token captured; when they are equal it goes on to its
\* next checkpoint or returns Completed.  So a build returns Completed only
\* when the generations were equal at every checkpoint it reached.
C29_CheckpointDecides ==
    [][\A t \in 1..Len(tasks) :
          (tasks[t].pc \in Checkpoints /\ tasks'[t] # tasks[t]) =>
              IF GenerationsDiffer(tasks[t].token)
              THEN tasks'[t].pc = "done" /\ tasks'[t].outcome = "Cancelled"
              ELSE /\ tasks'[t].outcome # "Cancelled"
                   /\ tasks'[t].pc \in Checkpoints \cup {"done"}
                   /\ tasks'[t].pc = "done" => tasks'[t].outcome = "Completed"]_vars

\* One build has returned Cancelled at a checkpoint where the counter had
\* moved on; another has returned Completed after its third checkpoint.
C29_Witness ==
    \E c \in Completions : \E d \in Completions :
        /\ tasks[c].pc = "done" /\ tasks[c].outcome = "Cancelled"
        /\ tasks[c].seen # tasks[c].token.generation
        /\ tasks[d].pc = "done" /\ tasks[d].outcome = "Completed"
        /\ ~tasks[d].early
        /\ tasks[d].seen = tasks[d].token.generation


\* The counter of kind k of document state s; a state that is not on the
\* heap yet starts from TaskGeneration::default.
CounterOf(heap, s, k) ==
    IF s \in DOMAIN heap THEN heap[s][k] ELSE DocumentTaskStateDefault[k]

\* The issued tokens of one counter that are active.
ActiveTokens(heap, issued, s, k) ==
    {i \in DOMAIN issued :
        /\ issued[i].token.state = s /\ issued[i].token.kind = k
        /\ ~token_is_cancelled(heap, issued[i].token)}

\* C30: in every step each generation counter stays or grows by one, and a
\* step that issues or cancels a token grows that token's counter by
\* exactly one; two tokens issued from one counter carry different
\* generations; at most one issued token of a counter is active; and a
\* token that is cancelled stays cancelled.
C30_MonotonicGenerations ==
    [][TokensOn =>
        /\ \A s \in DOMAIN task_heap' : \A k \in DocumentTaskKinds :
              /\ task_heap'[s][k] \in {CounterOf(task_heap, s, k),
                                       CounterOf(task_heap, s, k) + 1}
              /\ Cardinality(ActiveTokens(task_heap', eval'.issued, s, k)) <= 1
        /\ eval'.last.op \in {"issue", "cancel"} =>
              task_heap'[eval'.last.state][eval'.last.kind] =
                  CounterOf(task_heap, eval'.last.state, eval'.last.kind) + 1
        /\ \A i, j \in DOMAIN eval'.issued :
              (/\ i < j
               /\ eval'.issued[i].token.state = eval'.issued[j].token.state
               /\ eval'.issued[i].token.kind = eval'.issued[j].token.kind) =>
                  eval'.issued[i].token.generation # eval'.issued[j].token.generation
        /\ \A i \in DOMAIN eval.issued :
              token_is_cancelled(task_heap, eval.issued[i].token) =>
                  token_is_cancelled(task_heap', eval.issued[i].token)]_vars

\* Two tokens of one counter with a cancel between them: the generations
\* are two apart, the first token is cancelled and the second is active.
C30_Witness ==
    /\ TokensOn
    /\ eval.cancels = 1
    /\ \E i \in DOMAIN eval.issued : \E j \in DOMAIN eval.issued :
          /\ i < j
          /\ eval.issued[i].token.state = eval.issued[j].token.state
          /\ eval.issued[i].token.kind = eval.issued[j].token.kind
          /\ eval.issued[j].token.generation = eval.issued[i].token.generation + 2
          /\ token_is_cancelled(task_heap, eval.issued[i].token)
          /\ ~token_is_cancelled(task_heap, eval.issued[j].token)

(***************************************************************************)
(* SpecRace: threads that share the server call                            *)
(* cached_position_to_offset for one document.  A call holds the cache's   *)
(* lock while it looks up and again while it inserts; position_to_offset   *)
(* runs between the two with the lock released.                            *)
(***************************************************************************)
MaxRaceCalls == 4

Callers == {1, 2}

RaceDoc == "a.did"

RaceRope == <<"a", "\n", "a">>

RacePositions == {Position(0, 0), Position(0, 1), Position(1, 1), Position(2, 0)}

RaceIdle ==
    [fn |-> "race", started |-> 0,
     calls |-> [c \in Callers |->
                  [pc |-> "return", position |-> Position(0, 0), result |-> None]]]

InitRace ==
    /\ ServerIdle
    /\ hover_offset_cache = <<>>
    /\ lru = LruIdle
    /\ fresh = FreshIdle
    /\ AnalyzeIdle
    /\ eval = RaceIdle

RaceFrame == UNCHANGED <<serverVars, lru, fresh, an>>

\* The first critical section: cache.lookup; a hit returns.
RaceLookup(c) ==
    /\ eval.calls[c].pc = "return"
    /\ eval.started < MaxRaceCalls
    /\ \E position \in RacePositions :
          LET looked(hit) ==
                  /\ hover_offset_cache' = hit.cache
                  /\ eval' = [eval EXCEPT
                                !.started = @ + 1,
                                !.calls[c] =
                                    [pc |-> IF IsSome(hit.result)
                                            THEN "return" ELSE "position_to_offset",
                                     position |-> position, result |-> hit.result]]
          IN looked(cache_lookup(hover_offset_cache, RaceDoc, Some(1), position))
    /\ RaceFrame

\* position_to_offset(position, rope)?, outside the lock.
RaceCompute(c) ==
    /\ eval.calls[c].pc = "position_to_offset"
    /\ LET offset == position_to_offset(eval.calls[c].position, RaceRope)
       IN eval' = [eval EXCEPT
                     !.calls[c].pc = IF IsSome(offset) THEN "insert" ELSE "return",
                     !.calls[c].result = offset]
    /\ UNCHANGED hover_offset_cache
    /\ RaceFrame

\* The second critical section: cache.insert.
RaceInsert(c) ==
    /\ eval.calls[c].pc = "insert"
    /\ hover_offset_cache' =
           cache_insert(hover_offset_cache, RaceDoc, Some(1), eval.calls[c].position,
                        Unwrap(eval.calls[c].result))
    /\ eval' = [eval EXCEPT !.calls[c].pc = "return"]
    /\ RaceFrame

RaceLookups == \E c \in Callers : RaceLookup(c)
RaceComputes == \E c \in Callers : RaceCompute(c)
RaceInserts == \E c \in Callers : RaceInsert(c)

NextRace == RaceLookups \/ RaceComputes \/ RaceInserts

SpecRace == InitRace /\ [][NextRace]_vars

LookupArrangements(index) ==
    {[i \in 1..Len(index) |-> index[p[i]]] :
        p \in {q \in [1..Len(index) -> 1..Len(index)] :
                  /\ \A i, j \in 1..Len(index) : q[i] = q[j] => i = j
                  /\ \A i \in 1..(Len(index) - 1) :
                        IntervalLeq(index[q[i]], index[q[i + 1]])}}

\* C32: the interval lookup_identifier selects at an offset is the same for
\* every order in which the intervals of the index were inserted.
C32_InsertionOrderIndependent ==
    (eval.fn = "lookup" /\ eval.calls = 1) =>
        \A other \in LookupArrangements(eval.intervals) :
            best_interval(other, eval.offset) = eval.best

(***************************************************************************)
(* SpecBlocks: CursorContext::new on texts made of the words record and    *)
(* service, colons, braces and field names, with the cursor at the end.    *)
(***************************************************************************)
MaxBlockWords == 4

BlockWords == {Chars_kw_record, Chars_kw_service \o <<" ", ":">>, <<"{">>, <<"}">>, <<"a", ":">>}

RECURSIVE JoinWords(_)
JoinWords(words) ==
    IF words = <<>> THEN <<>> ELSE Head(words) \o <<" ">> \o JoinWords(Tail(words))

BlockTexts == {JoinWords(words) : words \in SeqsUpTo(BlockWords, MaxBlockWords)}

BlocksIdle ==
    [fn |-> "blocks", text |-> <<>>, calls |-> 0,
     inside_record_variant_block |-> FALSE, inside_service_block |-> FALSE]

InitBlocks ==
    /\ ServerIdle
    /\ hover_offset_cache = <<>>
    /\ lru = LruIdle
    /\ fresh = FreshIdle
    /\ AnalyzeIdle
    /\ eval = BlocksIdle

\* CursorContext::new(rope, offset) with the cursor at the end of the text.
BlocksCursorContext ==
    /\ \E text \in BlockTexts :
          LET built(context) ==
                  eval' = [eval EXCEPT
                             !.text = text, !.calls = 1,
                             !.inside_record_variant_block =
                                 context.inside_record_variant_block,
                             !.inside_service_block = context.inside_service_block]
          IN built(CursorContext_new(text, Len(text)))
    /\ EvalUnchanged

NextBlocks == BlocksCursorContext

SpecBlocks == InitBlocks /\ [][NextBlocks]_vars

CountOf(text, from, to, ch) == Cardinality({k \in from..to : text[k] = ch})

\* The '{' at i has no matching '}' in the text.
Unclosed(text, i) ==
    /\ text[i] = "{"
    /\ \A j \in (i + 1)..Len(text) :
          CountOf(text, i + 1, j, "}") <= CountOf(text, i + 1, j, "{")

\* The innermost '{' the end of the text lies in: 0 when there is none.
EnclosingBrace(text) ==
    LET open == {i \in 1..Len(text) : Unclosed(text, i)}
    IN IF open = {} THEN 0 ELSE CHOOSE i \in open : \A j \in open : j <= i

BeforeBrace(text, i) == trim_end(SubSeq(text, 1, i - 1))

\* The text before the brace ends with `service`, whitespace and a colon.
ServiceBefore(text, i) ==
    LET prefix == BeforeBrace(text, i)
    IN /\ prefix # <<>>
       /\ prefix[Len(prefix)] = ":"
       /\ ends_with(trim_end(SubSeq(prefix, 1, Len(prefix) - 1)), Chars_kw_service)

\* C33: the record/variant flag is true exactly when the cursor lies in an
\* unclosed '{' that record or variant immediately precedes, and the
\* service flag exactly when it lies in an unclosed '{' that `service :`
\* immediately precedes.
C33_FlagsFollowEnclosingBrace ==
    (eval.fn = "blocks" /\ eval.calls = 1) =>
        LET i == EnclosingBrace(eval.text)
        IN /\ eval.inside_record_variant_block <=>
                 (i # 0 /\ (\/ ends_with(BeforeBrace(eval.text, i), Chars_kw_record)
                            \/ ends_with(BeforeBrace(eval.text, i), Chars_kw_variant)))
           /\ eval.inside_service_block <=> (i # 0 /\ ServiceBefore(eval.text, i))

(***************************************************************************)
(* build_completion_items_sync and build_completion_items_async            *)
(* (completion.rs).  An item is its label, kind and detail; a Semantic is  *)
(* the names it holds, a scope index the bindings it has at the offset.    *)
(***************************************************************************)
MaxBuildInvalidations == 1

BuildLabels == <<"a", "b", "blob", "import", "nat", "service", "type">>

LabelIndex(label) == CHOOSE i \in 1..Len(BuildLabels) : BuildLabels[i] = label

build_completion_item(label, kind, detail) ==
    [label |-> label, kind |-> kind, detail |-> detail]

build_keyword_completion_item(keyword) ==
    build_completion_item(keyword, "KEYWORD", Some("keyword"))

keyword_completion_items ==
    <<build_keyword_completion_item("type"), build_keyword_completion_item("service")>>

primitive_completion_items ==
    <<build_completion_item("nat", "STRUCT", Some("primitive type"))>>

blob_completion_item == build_completion_item("blob", "STRUCT", Some("type alias"))

static_completion_items ==
    Append(keyword_completion_items \o primitive_completion_items, blob_completion_item)

top_level_completion_items ==
    <<build_keyword_completion_item("type"), build_keyword_completion_item("service"),
      build_keyword_completion_item("import")>>

BuildItems(names, kind, detail) ==
    [i \in 1..Len(names) |-> build_completion_item(names[i], kind, detail)]

scoped_local_items(scope_index) ==
    IF IsNone(scope_index) THEN <<>>
    ELSE BuildItems(Unwrap(scope_index), "VARIABLE", Some("local binding"))

service_method_labels(semantic) ==
    BuildItems(semantic.service_methods, "METHOD", Some("service method"))

service_method_snippets(semantic, inside_block) ==
    IF inside_block
    THEN BuildItems(semantic.service_methods, "SNIPPET", Some("signature"))
    ELSE <<>>

service_method_items(semantic, inside_block, lightweight) ==
    IF lightweight THEN service_method_labels(semantic)
    ELSE service_method_labels(semantic) \o service_method_snippets(semantic, inside_block)

\* The fields grouped by label in a BTreeMap: one item per label, in the
\* order of the labels.
field_group_items(semantic) ==
    LET labels == {semantic.fields[i] : i \in 1..Len(semantic.fields)}
        RECURSIVE ordered(_)
        ordered(k) ==
            IF k > Len(BuildLabels) THEN <<>>
            ELSE IF BuildLabels[k] \in labels
            THEN <<build_completion_item(BuildLabels[k], "VALUE", Some("field"))>>
                     \o ordered(k + 1)
            ELSE ordered(k + 1)
    IN ordered(1)

value_completion_items(semantic, scope_index, inside_block) ==
    scoped_local_items(scope_index)
        \o service_method_snippets(semantic, inside_block)
        \o field_group_items(semantic)
        \o service_method_labels(semantic)
        \o BuildItems(semantic.params, "VARIABLE", Some("argument"))
        \o BuildItems(semantic.actor, "INTERFACE", Some("actor"))

lightweight_value_completion_items(semantic_opt, scope_index) ==
    IF IsSome(semantic_opt)
    THEN scoped_local_items(scope_index) \o service_method_labels(Unwrap(semantic_opt))
    ELSE scoped_local_items(scope_index)

semantic_completion_items(semantic) ==
    BuildItems(semantic.types, "STRUCT", None)
        \o BuildItems(semantic.imports, "STRUCT", Some("imported type"))

\* push_if_unique on [items, seen].
push_if_unique(acc, item) ==
    IF <<item.label, item.detail>> \in acc.seen THEN acc
    ELSE [items |-> Append(acc.items, item),
          seen |-> acc.seen \cup {<<item.label, item.detail>>}]

RECURSIVE push_each(_, _)
push_each(acc, list) ==
    IF list = <<>> THEN acc
    ELSE push_each(push_if_unique(acc, Head(list)), Tail(list))

\* Vec::sort_by on the labels: stable.
RECURSIVE sort_by_label(_)
sort_by_label(pending) ==
    IF pending = <<>> THEN <<>>
    ELSE LET sorted == sort_by_label(SubSeq(pending, 1, Len(pending) - 1))
             item == pending[Len(pending)]
             before == Cardinality({i \in 1..Len(sorted) :
                          LabelIndex(sorted[i].label) <= LabelIndex(item.label)})
         IN SubSeq(sorted, 1, before) \o <<item>> \o SubSeq(sorted, before + 1, Len(sorted))

append_sorted_items(acc, pending) ==
    IF pending = <<>> THEN acc ELSE push_each(acc, sort_by_label(pending))

NoItems == [items |-> <<>>, seen |-> {}]

BuildCompletionItemsParams(context, semantic_opt, scope_index, offset,
                           inside_service_block, lightweight) ==
    [context |-> context, semantic_ref |-> semantic_opt, scope_index |-> scope_index,
     offset |-> offset, inside_service_block |-> inside_service_block,
     lightweight |-> lightweight]

\* build_completion_items_sync
build_completion_items_sync(params) ==
    LET value_items ==
            IF params.lightweight
            THEN lightweight_value_completion_items(params.semantic_ref, params.scope_index)
            ELSE IF IsSome(params.semantic_ref)
            THEN value_completion_items(Unwrap(params.semantic_ref), params.scope_index,
                                        params.inside_service_block)
            ELSE <<>>
        static == push_each(NoItems, static_completion_items)
        service(acc) ==
            IF /\ params.context \notin {"Value", "Definition"}
               /\ IsSome(params.semantic_ref) /\ IsSome(params.offset)
               /\ params.inside_service_block
            THEN append_sorted_items(acc,
                     service_method_items(Unwrap(params.semantic_ref),
                                          params.inside_service_block, params.lightweight)).items
            ELSE acc.items
    IN CASE params.context = "Value" ->
              service(IF IsSome(params.offset)
                      THEN append_sorted_items(NoItems, value_items) ELSE NoItems)
         [] params.context = "Definition" ->
              IF IsSome(params.offset) /\ params.inside_service_block
              THEN service(append_sorted_items(NoItems, value_items))
              ELSE <<>>
         [] params.context = "TopLevel" ->
              service(push_each(NoItems, top_level_completion_items))
         [] params.context = "Comment" -> <<>>
         [] OTHER ->
              service(IF ~params.lightweight /\ IsSome(params.semantic_ref)
                      THEN append_sorted_items(static,
                               semantic_completion_items(Unwrap(params.semantic_ref)))
                      ELSE static)

CompletionContexts == {"Unknown", "Type", "Value", "Definition", "TopLevel", "Comment"}

BuildSemantic(service_methods, fields, params, actor, types, imports) ==
    [service_methods |-> service_methods, fields |-> fields, params |-> params,
     actor |-> actor, types |-> types, imports |-> imports]

BuildSemantics ==
    {BuildSemantic(<<>>, <<>>, <<>>, <<>>, <<"a">>, <<>>),
     BuildSemantic(<<"b", "a">>, <<"b", "a", "b">>, <<"a">>, <<"b">>, <<"b", "a">>, <<"a">>)}

BuildScopes == {None, Some(<<"b", "a", "b">>)}

BuildParams ==
    {BuildCompletionItemsParams(context, semantic_opt, scope_index, offset, inside, lightweight) :
        context \in CompletionContexts,
        semantic_opt \in {None} \cup {Some(s) : s \in BuildSemantics},
        scope_index \in BuildScopes,
        offset \in {None, Some(0)},
        inside \in BOOLEAN,
        lightweight \in BOOLEAN}

BuildToken == DocumentTaskToken("Completion", 1, 1)

BuildIdle ==
    [fn |-> "build", pc |-> "idle", params |-> None, acc |-> NoItems,
     heap |-> <<[DocumentTaskStateDefault EXCEPT !["Completion"] = 1]>>,
     outcome |-> None]

InitBuild ==
    /\ ServerIdle
    /\ hover_offset_cache = <<>>
    /\ lru = LruIdle
    /\ fresh = FreshIdle
    /\ AnalyzeIdle
    /\ eval = BuildIdle

Cancelled == [kind |-> "Cancelled", items |-> <<>>]

Completed(items) == [kind |-> "Completed", items |-> items]

\* completion calls build_completion_items_async with its token.
BuildCall ==
    /\ eval.pc = "idle"
    /\ \E params \in BuildParams :
          eval' = [eval EXCEPT !.pc = "checkpoint1", !.params = Some(params)]
    /\ EvalUnchanged

\* A later task_token of the same kind for the document.
BuildInvalidate ==
    /\ eval.pc \in {"checkpoint1", "checkpoint2", "checkpoint3"}
    /\ eval.heap[1]["Completion"] < 1 + MaxBuildInvalidations
    /\ eval' = [eval EXCEPT !.heap[1]["Completion"] = next_token(@).counter]
    /\ EvalUnchanged

\* build_completion_items_async from its first yield to its second.
BuildFirstCheckpoint ==
    /\ eval.pc = "checkpoint1"
    /\ LET params == Unwrap(eval.params)
           value_items ==
               IF params.lightweight
               THEN lightweight_value_completion_items(params.semantic_ref,
                                                       params.scope_index)
               ELSE IF IsSome(params.semantic_ref)
               THEN value_completion_items(Unwrap(params.semantic_ref), params.scope_index,
                                           params.inside_service_block)
               ELSE <<>>
           static == push_each(NoItems, static_completion_items)
           return(outcome) == eval' = [eval EXCEPT !.pc = "done", !.outcome = Some(outcome)]
           yield(acc) == eval' = [eval EXCEPT !.pc = "checkpoint2", !.acc = acc]
       IN IF yield_and_check(eval.heap, BuildToken) = "Err" THEN return(Cancelled)
          ELSE CASE params.context = "Value" ->
                      yield(IF IsSome(params.offset)
                            THEN append_sorted_items(NoItems, value_items) ELSE NoItems)
                 [] params.context = "Definition" ->
                      IF IsSome(params.offset) /\ params.inside_service_block
                      THEN yield(append_sorted_items(NoItems, value_items))
                      ELSE return(Completed(<<>>))
                 [] params.context = "TopLevel" ->
                      yield(push_each(NoItems, top_level_completion_items))
                 [] params.context = "Comment" -> return(Completed(<<>>))
                 [] OTHER ->
                      yield(IF ~params.lightweight /\ IsSome(params.semantic_ref)
                            THEN append_sorted_items(static,
                                     semantic_completion_items(Unwrap(params.semantic_ref)))
                            ELSE static)
    /\ EvalUnchanged

\* A second segment that leaves the service methods out.
BuildSecondCheckpointBare ==
    /\ eval.pc = "checkpoint2"
    /\ eval' = [eval EXCEPT
                  !.pc = IF yield_and_check(eval.heap, BuildToken) = "Err"
                         THEN "done" ELSE "checkpoint3",
                  !.outcome = IF yield_and_check(eval.heap, BuildToken) = "Err"
                              THEN Some(Cancelled) ELSE None]
    /\ EvalUnchanged

\* build_completion_items_async from its second yield to its third.
BuildSecondCheckpoint ==
    /\ eval.pc = "checkpoint2"
    /\ LET params == Unwrap(eval.params)
       IN IF yield_and_check(eval.heap, BuildToken) = "Err"
          THEN eval' = [eval EXCEPT !.pc = "done", !.outcome = Some(Cancelled)]
          ELSE IF /\ params.context \notin {"Value", "Definition"}
                  /\ IsSome(params.semantic_ref) /\ IsSome(params.offset)
                  /\ params.inside_service_block
          THEN eval' = [eval EXCEPT
                          !.pc = "checkpoint3",
                          !.acc = append_sorted_items(eval.acc,
                                      service_method_items(Unwrap(params.semantic_ref),
                                          params.inside_service_block, params.lightweight))]
          ELSE eval' = [eval EXCEPT !.pc = "checkpoint3"]
    /\ EvalUnchanged

\* build_completion_items_async from its third yield to its return.
BuildThirdCheckpoint ==
    /\ eval.pc = "checkpoint3"
    /\ eval' = [eval EXCEPT
                  !.pc = "done",
                  !.outcome = IF yield_and_check(eval.heap, BuildToken) = "Err"
                              THEN Some(Cancelled)
                              ELSE Some(Completed(eval.acc.items))]
    /\ EvalUnchanged

NextBuild ==
    \/ BuildCall
    \/ BuildInvalidate
    \/ BuildFirstCheckpoint
    \/ BuildSecondCheckpoint
    \/ BuildThirdCheckpoint

SpecBuild == InitBuild /\ [][NextBuild]_vars

\* C34: when the token was never invalidated, build_completion_items_async
\* returns Completed with exactly the list build_completion_items_sync
\* returns for the same parameters.
C34_AsyncEqualsSync ==
    (eval.pc = "done" /\ eval.heap[1]["Completion"] = BuildToken.generation)
        => eval.outcome = Some(Completed(build_completion_items_sync(Unwrap(eval.params))))

\* A completed build whose list holds a sorted, deduplicated section and
\* the service methods behind the static items.
C34_Witness ==
    /\ eval.fn = "build" /\ eval.pc = "done"
    /\ eval.heap[1]["Completion"] = BuildToken.generation
    /\ Unwrap(eval.params).context = "Type"
    /\ Len(Unwrap(eval.outcome).items) > Len(static_completion_items) + 2

(***************************************************************************)
(* Sequences of declarations on one Ctx (declare_symbol, add_symbol).      *)
(***************************************************************************)
MaxDeclarations == 4

MaxSpanEnd == 2

DeclaredSpans == {Span(s, e) : s \in 0..MaxSpanEnd, e \in 1..MaxSpanEnd}

DeclaredNames == {"a", "b"}

SymbolsIdle ==
    [fn |-> "symbols", ctx |-> CtxNew(<<>>), declared |-> <<>>, returned |-> <<>>]

InitSymbols ==
    /\ ServerIdle
    /\ hover_offset_cache = <<>>
    /\ lru = LruIdle
    /\ fresh = FreshIdle
    /\ AnalyzeIdle
    /\ eval = SymbolsIdle

\* ctx.declare_symbol(name, span): the symbol id returned is the index of
\* the slot add_symbol pushed.
DeclareSymbol ==
    /\ Len(eval.declared) < MaxDeclarations
    /\ \E name \in DeclaredNames, span \in DeclaredSpans :
          eval' = [eval EXCEPT
                     !.ctx = declare_symbol(@, name, span),
                     !.declared = Append(@, span),
                     !.returned = Append(@, Len(eval.ctx.table.symbol_id_to_span))]
    /\ EvalUnchanged

NextSymbols == DeclareSymbol

SpecSymbols == InitSymbols /\ [][NextSymbols]_vars

\* The 0-based number of the last declaration with the span.
LastDeclared(declared, span) ==
    CHOOSE i \in 0..(Len(declared) - 1) :
        /\ declared[i + 1] = span
        /\ \A j \in (i + 1)..(Len(declared) - 1) : declared[j + 1] # span

\* C35: after any sequence of declarations span_to_symbol_id maps each
\* declared span to the most recently declared symbol with that span,
\* symbol_id_to_span[span_to_symbol_id[s]] = s for every key s, and every
\* declaration, also one with an already used span, got a new SymbolId.
C35_SpanMapFollowsLastDeclaration ==
    LET table == eval.ctx.table
    IN /\ DOMAIN table.span_to_symbol_id = {eval.declared[i] : i \in 1..Len(eval.declared)}
       /\ \A s \in DOMAIN table.span_to_symbol_id :
             /\ table.span_to_symbol_id[s] = LastDeclared(eval.declared, s)
             /\ table.symbol_id_to_span[table.span_to_symbol_id[s] + 1] = s
       /\ table.symbol_id_to_span = eval.declared
       /\ eval.returned = [i \in 1..Len(eval.declared) |-> i - 1]

\* One span declared twice, with another declaration in between.
C35_Witness ==
    /\ eval.fn = "symbols"
    /\ \E i, j, k \in 1..Len(eval.declared) :
          /\ i < j /\ j < k
          /\ eval.declared[i] = eval.declared[k]
          /\ eval.declared[j] # eval.declared[i]
          /\ eval.ctx.table.span_to_symbol_id[eval.declared[i]] = k - 1

\* The references of the program to names that several top-level
\* declarations bind.
RedeclaredRefs(p) ==
    {k \in 1..Len(VarRefs(p)) : Cardinality(Declaring(p, VarRefs(p)[k].name)) >= 2}

LastDeclaring(p, name) ==
    CHOOSE i \in Declaring(p, name) : \A j \in Declaring(p, name) : j <= i

\* C36: when several top-level bindings declare a name, every reference to
\* that name is bound to the symbol of the last of them: every reference the
\* pass has recorded so far, and, once the pass has succeeded, all of them.
C36_LastDeclarationWins ==
    LET refs == VarRefs(an.prog)
        bound(table, k) ==
            LET span == Span(refs[k].start, refs[k].start + 1)
            IN span \in DOMAIN table.span_to_reference_id =>
                  table.reference_id_to_reference[table.span_to_reference_id[span] + 1]
                      = [span |-> span,
                         symbol_id |-> Some(LastDeclaring(an.prog, refs[k].name) - 1)]
    IN /\ \A k \in RedeclaredRefs(an.prog) : bound(an.ctx.table, k)
       /\ (an.phase \in {"on_change", "done"} /\ IsSome(an.result.semantic)) =>
             \A k \in RedeclaredRefs(an.prog) :
                /\ Span(refs[k].start, refs[k].start + 1)
                      \in DOMAIN Unwrap(an.result.semantic).table.span_to_reference_id
                /\ bound(Unwrap(an.result.semantic).table, k)

\* A successful pass over two declarations of one name, the first of which
\* refers to that name.
C36_Witness ==
    /\ an.phase = "done"
    /\ IsSome(an.result.semantic)
    /\ \E k \in RedeclaredRefs(an.prog) :
          /\ VarRefs(an.prog)[k].dec = 1
          /\ Declaring(an.prog, VarRefs(an.prog)[k].name) = {1, 2}

(***************************************************************************)
(* ContextSpans built span by span and classified at an offset.            *)
(***************************************************************************)
MaxClassifySpans == 3

MaxClassifyOffset == 2

ClassifySpans == {Span(s, e) : s \in 0..MaxClassifyOffset, e \in 0..MaxClassifyOffset}

ClassifyIdle ==
    [fn |-> "classify", spans |-> ContextSpansDefault, added |-> 0, calls |-> 0,
     offset |-> 0, context |-> "Unknown"]

InitClassify ==
    /\ ServerIdle
    /\ hover_offset_cache = <<>>
    /\ lru = LruIdle
    /\ fresh = FreshIdle
    /\ AnalyzeIdle
    /\ eval = ClassifyIdle

ClassifyAddType ==
    /\ eval.calls = 0
    /\ eval.added < MaxClassifySpans
    /\ \E span \in ClassifySpans :
          eval' = [eval EXCEPT !.spans = add_type_span(@, span), !.added = @ + 1]
    /\ EvalUnchanged

ClassifyAddValue ==
    /\ eval.calls = 0
    /\ eval.added < MaxClassifySpans
    /\ \E span \in ClassifySpans :
          eval' = [eval EXCEPT !.spans = add_value_span(@, span), !.added = @ + 1]
    /\ EvalUnchanged

ClassifyAddDefinition ==
    /\ eval.calls = 0
    /\ eval.added < MaxClassifySpans
    /\ \E span \in ClassifySpans :
          eval' = [eval EXCEPT !.spans = add_definition_span(@, span), !.added = @ + 1]
    /\ EvalUnchanged

\* spans.classify(offset)
ClassifyCall ==
    /\ eval.calls = 0
    /\ \E offset \in 0..(MaxClassifyOffset + 1) :
          eval' = [eval EXCEPT !.calls = 1, !.offset = offset,
                               !.context = classify(eval.spans, offset)]
    /\ EvalUnchanged

NextClassify ==
    \/ ClassifyAddType
    \/ ClassifyAddValue
    \/ ClassifyAddDefinition
    \/ ClassifyCall

SpecClassify == InitClassify /\ [][NextClassify]_vars

\* The spans of the list that hold the offset.
Holding(spans, offset) ==
    {i \in 1..Len(spans) : spans[i].start <= offset /\ offset < spans[i].end}

\* C37: classify answers Definition if a definition span contains the
\* offset, else Value if a value span does, else Type if a type span does,
\* else Unknown.
C37_ClassifyByPrecedence ==
    eval.calls = 1 =>
        eval.context =
            IF Holding(eval.spans.definition_spans, eval.offset) # {} THEN "Definition"
            ELSE IF Holding(eval.spans.value_spans, eval.offset) # {} THEN "Value"
            ELSE IF Holding(eval.spans.type_spans, eval.offset) # {} THEN "Type"
            ELSE "Unknown"

\* An offset inside a definition span, a value span and a type span.
C37_Witness ==
    /\ eval.fn = "classify" /\ eval.calls = 1
    /\ Holding(eval.spans.definition_spans, eval.offset) # {}
    /\ Holding(eval.spans.value_spans, eval.offset) # {}
    /\ Holding(eval.spans.type_spans, eval.offset) # {}
    /\ eval.context = "Definition"

(***************************************************************************)
(* The cursor scan automaton on texts that grow by one character.          *)
(***************************************************************************)
MaxScanLen == 5

ScanChars == {"{", "}", "\"", "/", "*", "\n", "\\", "a"}

ScanIdle == [fn |-> "scan", text |-> <<>>, state |-> CursorScanStateDefault]

InitScan ==
    /\ ServerIdle
    /\ hover_offset_cache = <<>>
    /\ lru = LruIdle
    /\ fresh = FreshIdle
    /\ AnalyzeIdle
    /\ eval = ScanIdle

\* cursor_scan_state_from_text on the text with one more character.
ScanExtend ==
    /\ Len(eval.text) < MaxScanLen
    /\ \E ch \in ScanChars :
          eval' = [eval EXCEPT !.text = Append(@, ch),
                               !.state = cursor_scan_state_from_text(Append(eval.text, ch))]
    /\ EvalUnchanged

NextScan == ScanExtend

SpecScan == InitScan /\ [][NextScan]_vars

\* The loop's variables after its turns at the characters 1..i of the text.
ScanTurns(text, i) ==
    cursor_scan(text, 1, i,
                [state |-> CursorScanStateDefault, escape |-> FALSE, skip |-> FALSE])

ModesOf(state) ==
    {m \in {"in_string", "in_line_comment", "in_block_comment"} : state[m]}

\* C38: after any input prefix at most one of in_string, in_line_comment
\* and in_block_comment is set and the depth is not negative; a character
\* read while one of the modes is set leaves the depth alone and opens no
\* other mode.
C38_ScanModesExclusive ==
    /\ Cardinality(ModesOf(eval.state)) <= 1
    /\ eval.state.depth >= 0
    /\ \A i \in 1..Len(eval.text) :
          LET before == ScanTurns(eval.text, i - 1)
              after == ScanTurns(eval.text, i)
          IN /\ Cardinality(ModesOf(after.state)) <= 1
             /\ after.state.depth >= 0
             /\ ModesOf(before.state) # {} =>
                   /\ after.state.depth = before.state.depth
                   /\ ModesOf(after.state) \subseteq ModesOf(before.state)

\* A brace behind an opening quote behind a brace: depth 1, in a string.
C38_Witness ==
    /\ eval.fn = "scan"
    /\ Len(eval.text) >= 4
    /\ SubSeq(eval.text, 1, 4) = <<"{", "\"", "{", "/">>
    /\ eval.state.depth = 1
    /\ ModesOf(eval.state) = {"in_string"}

\* C39: for every offset from 0 to the length of the text,
\* offset_to_position succeeds and position_to_offset of its result is the
\* offset again.
C39_OffsetRoundTrip ==
    (eval.fn = "round_trip" /\ eval.offset <= Len(eval.rope)) =>
        /\ IsSome(eval.result)
        /\ eval.back = Some(eval.offset)

\* The offset at the end of a text whose last line has no line break, and
\* in another state the offset of the start of its second line.
C39_Witness ==
    /\ eval.fn = "round_trip"
    /\ eval.rope = <<"a", "\n", "a">>
    /\ eval.offset = 3
    /\ eval.result = Some(Position(1, 1))
    /\ eval.back = Some(3)

\* C40: a did_close step removes the document's entry of task_states and
\* nothing else: the document snapshots, the analysis snapshots, the offset
\* cache, the counters and the tokens held by requests stay as they are;
\* and task_token for that document in the state it leaves takes a counter
\* that is not one of the old ones and starts at generation 1.
C40_CloseRemovesOnlyTaskState ==
    [][\A t \in 1..Len(tasks) :
          (tasks[t].pc = "did_close" /\ tasks'[t].pc = "done") =>
              /\ documents' = documents
              /\ analysis_map' = analysis_map
              /\ hover_offset_cache' = hover_offset_cache
              /\ task_heap' = task_heap
              /\ task_states' = [task_states EXCEPT ![tasks[t].uri] = None]
              /\ \A u \in 1..Len(tasks) : tasks'[u].token = tasks[u].token
              /\ \A kind \in DocumentTaskKinds :
                    LET next == task_token(task_states', task_heap', tasks[t].uri, kind)
                    IN /\ next.token.state \notin DOMAIN task_heap'
                       /\ next.token.generation = 1
                       /\ next.task_heap[next.token.state]
                            = [DocumentTaskStateDefault EXCEPT ![kind] = 1]
                       /\ \A s \in DOMAIN task_heap' : next.task_heap[s] = task_heap'[s]
                       /\ next.task_states[tasks[t].uri] = Some(next.token.state)]_vars

\* A document closed while a completion holds a token of it: the snapshots
\* are still there, the token is still active on its old counter, and the
\* document has no task state.
C40_Witness ==
    \E t, c \in 1..Len(tasks) :
        /\ tasks[t].op = "did_close" /\ tasks[t].pc = "done"
        /\ tasks[c].op = "completion" /\ tasks[c].uri = tasks[t].uri
        /\ tasks[c].pc \in {"checkpoint1", "checkpoint2", "checkpoint3"}
        /\ tasks[c].token.state \in DOMAIN task_heap
        /\ ~token_is_cancelled(task_heap, tasks[c].token)
        /\ IsNone(task_states[tasks[t].uri])
        /\ IsSome(documents[tasks[t].uri])
        /\ IsSome(analysis_map[tasks[t].uri])
====
